---------------------------- MODULE Spec2Model ----------------------------
(***************************************************************************)
(* A model of the three parsers of iiif-media-parsers:                     *)
(*   parseRanges            (parseRanges.ts)                                *)
(*   parseSpeakers          (parseSpeakers.ts)                              *)
(*   parseMediaFragment /   (parseAnnotationTarget.ts)                      *)
(*   parseAnnotationTarget                                                  *)
(*                                                                         *)
(* The parsers are pure functions.  Each is an operator computed the way   *)
(* the code computes it; the state machine is a caller that invokes one    *)
(* of them on an input drawn from a bounded set and keeps what it returned.*)
(* The scan loop of parseVTTCues is also given step by step, one action    *)
(* per iteration, with its locals in the variable scan.                    *)
(*                                                                         *)
(* Conventions.                                                            *)
(*  - A JavaScript string is a sequence of one-character strings, so that  *)
(*    indexOf, includes, trim and the regular expressions are computed     *)
(*    character by character.  Opaque strings (labels, URLs) that the code *)
(*    only tests for emptiness stay TLA+ strings.                          *)
(*  - An optional value (undefined / null / a missing property) is a       *)
(*    sequence of length 0 (None) or 1 (Some(v)).                          *)
(*  - A number parsed from a media fragment or declared as a duration is   *)
(*    an integer count of 1/Scale seconds, and so is a WebVTT time.  Both  *)
(*    are exact for the inputs enumerated.                                 *)
(***************************************************************************)
EXTENDS Integers, Sequences, FiniteSets, TLC

VARIABLES call, arg, ret, scan

vars == <<call, arg, ret, scan>>

-----------------------------------------------------------------------------
(* Bounds of the model.                                                    *)

\* longest fragment body (the text after "#t=") that is enumerated
MaxBodyLen == 3

\* most nodes (ranges and leaf references) of an enumerated range forest
MaxNodes == 4

\* most entries of an enumerated manifest.items list (duration map)
MaxCanvases == 2

\* most cues of an enumerated caption document made of whole cues
MaxCues == 3

\* most lines of an enumerated caption document made of arbitrary lines
MaxLines == 4

-----------------------------------------------------------------------------
(* Optional values.                                                        *)

None == <<>>

Some(v) == <<v>>

IsSome(o) == Len(o) > 0

Get(o) == o[1]

-----------------------------------------------------------------------------
(* Strings as character sequences.                                         *)

Digits == {"0", "1", "2", "3", "4", "5", "6", "7", "8", "9"}

DigitVal(c) ==
    CASE c = "0" -> 0 [] c = "1" -> 1 [] c = "2" -> 2 [] c = "3" -> 3
      [] c = "4" -> 4 [] c = "5" -> 5 [] c = "6" -> 6 [] c = "7" -> 7
      [] c = "8" -> 8 [] c = "9" -> 9

DigitChar(k) == CHOOSE c \in Digits : DigitVal(c) = k

\* the character class [0-9.]
NumChars == Digits \cup {"."}

\* s.startsWith(sub, i - 1), positions counted from 1
MatchesAt(s, i, sub) ==
    /\ i >= 1
    /\ i + Len(sub) - 1 <= Len(s)
    /\ \A k \in 1..Len(sub) : s[i + k - 1] = sub[k]

\* s.includes(sub)
Includes(s, sub) == \E i \in 1..(Len(s) + 1) : MatchesAt(s, i, sub)

\* s.indexOf(sub) counted from 1; 0 stands for JavaScript's -1
IndexOf(s, sub) ==
    IF Includes(s, sub)
    THEN CHOOSE i \in 1..(Len(s) + 1) :
            /\ MatchesAt(s, i, sub)
            /\ \A j \in 1..(i - 1) : ~MatchesAt(s, j, sub)
    ELSE 0

\* length of the longest run of characters of class cls that starts at s[i]
\* (what a greedy cls* consumes there)
RunLen(s, i, cls) ==
    CHOOSE n \in 0..(Len(s) + 1) :
        /\ i + n - 1 <= Len(s) \/ n = 0
        /\ \A k \in 0..(n - 1) : s[i + k] \in cls
        /\ (i + n > Len(s) \/ s[i + n] \notin cls)

-----------------------------------------------------------------------------
(* Numbers.                                                                *)

RECURSIVE Pow10(_)
Pow10(n) == IF n = 0 THEN 1 ELSE 10 * Pow10(n - 1)

\* number of fractional decimal digits kept; no enumerated numeric run has
\* more digits after its dot than this
FracDigits == MaxBodyLen

Scale == Pow10(FracDigits)

RECURSIVE IntOf(_)
\* value of a run of decimal digits ("" is 0)
IntOf(ds) ==
    IF Len(ds) = 0 THEN 0
    ELSE 10 * IntOf(SubSeq(ds, 1, Len(ds) - 1)) + DigitVal(ds[Len(ds)])

\* parseFloat on a string of the class [0-9.]* : the longest prefix that is
\* a decimal literal (digits, optionally a dot and digits; or a dot and
\* digits); NaN is None.  The value is in units of 1/Scale.
ParseFloat(s) ==
    LET intLen  == RunLen(s, 1, Digits)
        hasDot  == intLen < Len(s) /\ s[intLen + 1] = "."
        fracLen == IF hasDot THEN RunLen(s, intLen + 2, Digits) ELSE 0
        int     == IntOf(SubSeq(s, 1, intLen))
        frac    == IntOf(SubSeq(s, intLen + 2, intLen + 1 + fracLen))
    IN  IF intLen = 0 /\ fracLen = 0
        THEN None
        ELSE Some(int * Scale + (frac * Scale) \div Pow10(fracLen))

-----------------------------------------------------------------------------
(* parseRanges.ts                                                          *)

TFrag == <<"#", "t", "=">>

\* hasTemporalFragment: canvasId.includes('#t=')
HasTemporalFragment(canvasId) == Includes(canvasId, TFrag)

\* canvasId.match(/#t=([0-9.]+)(?:,([0-9.]+))?$/) tried at position i:
\* None when the pattern does not match there, else the two captured groups
\* (the second is None when the optional group took no part).  The classes
\* [0-9.] and "," are disjoint, so the greedy runs are the only way to match.
TemporalMatchAt(canvasId, i) ==
    LET p  == i + Len(TFrag)
        n1 == RunLen(canvasId, p, NumChars)
        q  == p + n1 + 1
        n2 == RunLen(canvasId, q, NumChars)
    IN  IF ~MatchesAt(canvasId, i, TFrag) \/ n1 = 0
        THEN None
        ELSE IF p + n1 > Len(canvasId)
        THEN Some([g1 |-> SubSeq(canvasId, p, p + n1 - 1), g2 |-> None])
        ELSE IF canvasId[p + n1] = "," /\ n2 > 0 /\ q + n2 > Len(canvasId)
        THEN Some([g1 |-> SubSeq(canvasId, p, p + n1 - 1),
                   g2 |-> Some(SubSeq(canvasId, q, q + n2 - 1))])
        ELSE None

\* String.prototype.match with an unanchored regular expression: of the
\* attempts at positions 1, 2, ... the first that matches
FirstMatch(attempts) ==
    LET hits == {i \in DOMAIN attempts : IsSome(attempts[i])}
    IN  IF hits = {} THEN None
        ELSE attempts[CHOOSE i \in hits : \A j \in hits : i <= j]

\* canvasId.match(/#t=([0-9.]+)(?:,([0-9.]+))?$/)
TemporalMatch(canvasId) ==
    FirstMatch([i \in 1..Len(canvasId) |-> TemporalMatchAt(canvasId, i)])

\* extractTemporalFragment once start is known to be a number >= 0 and
\* match[2] is non-empty: end = parseFloat(match[2])
TemporalFragmentWithEnd(start, end) ==
    IF ~IsSome(end) \/ Get(end) <= start THEN None
    ELSE Some([start |-> start, end |-> end])

\* extractTemporalFragment after the match: start = parseFloat(match[1]),
\* endStr = match[2]
TemporalFragmentFrom(start, endStr) ==
    IF ~IsSome(start) \/ Get(start) < 0 THEN None
    ELSE IF ~IsSome(endStr) \/ Len(Get(endStr)) = 0
    THEN Some([start |-> Get(start), end |-> None])
    ELSE TemporalFragmentWithEnd(Get(start), ParseFloat(Get(endStr)))

\* extractTemporalFragment from the result of canvasId.match
TemporalFragmentOfMatch(match) ==
    IF ~IsSome(match) THEN None
    ELSE TemporalFragmentFrom(ParseFloat(Get(match).g1), Get(match).g2)

\* extractTemporalFragment: null is None, {start} has end = None
ExtractTemporalFragment(canvasId) == TemporalFragmentOfMatch(TemporalMatch(canvasId))

\* Map.set
MapSet(map, k, v) == [x \in (DOMAIN map) \cup {k} |-> IF x = k THEN v ELSE map[x]]

RECURSIVE DurationMapOf(_, _)
\* the loop of buildCanvasDurationMap over canvases, from the map so far
DurationMapOf(canvases, map) ==
    IF Len(canvases) = 0 THEN map
    ELSE LET canvas == Head(canvases)
         IN  DurationMapOf(Tail(canvases),
                 IF Len(canvas.id) > 0 /\ IsSome(canvas.duration)
                 THEN MapSet(map, canvas.id, Get(canvas.duration))
                 ELSE map)

\* buildCanvasDurationMap: manifest.items may be missing
BuildCanvasDurationMap(canvases) ==
    IF ~IsSome(canvases) THEN <<>> ELSE DurationMapOf(Get(canvases), <<>>)

\* extractCanvasId that strips nothing
ExtractCanvasIdKeepsFragment(canvasIdWithFragment) == canvasIdWithFragment

\* extractCanvasId: everything before the first '#'
ExtractCanvasId(canvasIdWithFragment) ==
    LET hashIndex == IndexOf(canvasIdWithFragment, <<"#">>)
    IN  IF hashIndex = 0 THEN canvasIdWithFragment
        ELSE SubSeq(canvasIdWithFragment, 1, hashIndex - 1)

UntitledChapter == "Untitled Chapter"

\* getFirstLabel: the first entry when it is a non-empty string, else null
GetFirstLabel(labels) ==
    IF Len(labels) > 0 /\ labels[1] # "" THEN Some(labels[1]) ELSE None

RECURSIVE FirstAvailableLabel(_)
\* the loop over Object.values(labelMap): entries in insertion order
FirstAvailableLabel(entries) ==
    IF Len(entries) = 0 THEN UntitledChapter
    ELSE LET label == GetFirstLabel(Head(entries).values)
         IN  IF IsSome(label) THEN Get(label)
             ELSE FirstAvailableLabel(Tail(entries))

\* extractLabel without the preference for 'en'
ExtractLabelFirstLanguage(labelMap) ==
    IF ~IsSome(labelMap) THEN UntitledChapter
    ELSE FirstAvailableLabel(Get(labelMap))

\* extractLabel: a language map is the sequence of its entries
\* [lang, values] in insertion order, languages distinct
ExtractLabel(labelMap) ==
    IF ~IsSome(labelMap) THEN UntitledChapter
    ELSE LET entries == Get(labelMap)
             en      == SelectSeq(entries, LAMBDA e : e.lang = "en")
             enLabel == IF Len(en) > 0 THEN GetFirstLabel(en[1].values) ELSE None
         IN  IF IsSome(enLabel) THEN Get(enLabel)
             ELSE FirstAvailableLabel(entries)

\* extractThumbnail
ExtractThumbnail(thumbnails) ==
    IF ~IsSome(thumbnails) \/ Len(Get(thumbnails)) = 0 THEN None
    ELSE Some(Get(thumbnails)[1].id)

RECURSIVE MetadataOf(_, _)
\* the loop of extractMetadata: result[key] = value, later keys overwrite
MetadataOf(metadata, result) ==
    IF Len(metadata) = 0 THEN result
    ELSE LET item == Head(metadata)
         IN  MetadataOf(Tail(metadata),
                 MapSet(result, ExtractLabel(item.label), ExtractLabel(item.value)))

\* extractMetadata
ExtractMetadata(metadata) ==
    IF ~IsSome(metadata) \/ Len(Get(metadata)) = 0 THEN None
    ELSE Some(MetadataOf(Get(metadata), <<>>))

\* createChapterFromRange once endTime is decided (undefined is None)
ChapterWithEndTime(range, startTime, endTime) ==
    IF ~IsSome(endTime) THEN None
    ELSE Some([id        |-> range.id,
               label     |-> ExtractLabel(range.label),
               startTime |-> startTime,
               endTime   |-> Get(endTime),
               thumbnail |-> ExtractThumbnail(range.thumbnail),
               metadata  |-> ExtractMetadata(range.metadata)])

\* createChapterFromRange from the timing of the first item: the end of the
\* fragment, else the duration of the canvas, else no chapter
ChapterOfTiming(range, timing, canvasId, canvasDurations) ==
    IF ~IsSome(timing) THEN None
    ELSE ChapterWithEndTime(range, Get(timing).start,
             IF IsSome(Get(timing).end) THEN Get(timing).end
             ELSE IF canvasId \in DOMAIN canvasDurations
             THEN Some(canvasDurations[canvasId])
             ELSE None)

\* createChapterFromRange that takes the timing of the last temporal item
CreateChapterFromLastItem(range, items, canvasDurations) ==
    IF Len(items) = 0 THEN None
    ELSE ChapterOfTiming(range, ExtractTemporalFragment(items[Len(items)].id),
                         ExtractCanvasId(items[Len(items)].id), canvasDurations)

\* createChapterFromRange: null is None
CreateChapterFromRange(range, items, canvasDurations) ==
    IF Len(items) = 0 THEN None
    ELSE ChapterOfTiming(range, ExtractTemporalFragment(items[1].id),
                         ExtractCanvasId(items[1].id), canvasDurations)

RECURSIVE ProcessRange(_, _, _)
RECURSIVE ProcessRanges(_, _, _)

\* processRange that leaves a range whose chapter could not be made
\* without descending into its nested ranges
ProcessRangeLeavesMalformed(range, chapters, canvasDurations) ==
    IF ~IsSome(range.items) \/ Len(Get(range.items)) = 0 THEN chapters
    ELSE LET items         == Get(range.items)
             temporalItems == SelectSeq(items,
                                  LAMBDA item : item.type = "Canvas"
                                                /\ HasTemporalFragment(item.id))
             chapter       == CreateChapterFromRange(range, temporalItems,
                                                     canvasDurations)
             pushed        == IF Len(temporalItems) > 0 /\ IsSome(chapter)
                              THEN Append(chapters, Get(chapter))
                              ELSE chapters
             nestedRanges  == SelectSeq(items, LAMBDA item : item.type = "Range")
         IN  IF Len(temporalItems) > 0 /\ ~IsSome(chapter)
             THEN chapters
             ELSE ProcessRanges(nestedRanges, pushed, canvasDurations)

\* processRange that descends only when the range gave no chapter itself
ProcessRangeChapterOrDescend(range, chapters, canvasDurations) ==
    IF ~IsSome(range.items) \/ Len(Get(range.items)) = 0 THEN chapters
    ELSE LET items         == Get(range.items)
             temporalItems == SelectSeq(items,
                                  LAMBDA item : item.type = "Canvas"
                                                /\ HasTemporalFragment(item.id))
             chapter       == CreateChapterFromRange(range, temporalItems,
                                                     canvasDurations)
             nestedRanges  == SelectSeq(items, LAMBDA item : item.type = "Range")
         IN  IF Len(temporalItems) > 0 /\ IsSome(chapter)
             THEN Append(chapters, Get(chapter))
             ELSE ProcessRanges(nestedRanges, chapters, canvasDurations)

\* processRange: the accumulator chapters after the call
ProcessRange(range, chapters, canvasDurations) ==
    IF ~IsSome(range.items) \/ Len(Get(range.items)) = 0 THEN chapters
    ELSE LET items         == Get(range.items)
             temporalItems == SelectSeq(items,
                                  LAMBDA item : item.type = "Canvas"
                                                /\ HasTemporalFragment(item.id))
             chapter       == CreateChapterFromRange(range, temporalItems,
                                                     canvasDurations)
             pushed        == IF Len(temporalItems) > 0 /\ IsSome(chapter)
                              THEN Append(chapters, Get(chapter))
                              ELSE chapters
             nestedRanges  == SelectSeq(items, LAMBDA item : item.type = "Range")
         IN  ProcessRanges(nestedRanges, pushed, canvasDurations)

\* for (const range of ranges) processRange(range, chapters, canvasDurations)
ProcessRanges(ranges, chapters, canvasDurations) ==
    IF Len(ranges) = 0 THEN chapters
    ELSE ProcessRanges(Tail(ranges),
                       ProcessRange(Head(ranges), chapters, canvasDurations),
                       canvasDurations)

\* an insertion that puts x before the elements that compare equal: a sort
\* that is not stable
InsertBeforeEqual(sorted, x) ==
    LET k == Cardinality({i \in 1..Len(sorted) : sorted[i].startTime < x.startTime})
    IN  SubSeq(sorted, 1, k) \o <<x>> \o SubSeq(sorted, k + 1, Len(sorted))

\* where Array.prototype.sort, which is stable, puts x among the already
\* sorted elements: after every element that does not compare greater
InsertByStartTime(sorted, x) ==
    LET k == Cardinality({i \in 1..Len(sorted) : sorted[i].startTime <= x.startTime})
    IN  SubSeq(sorted, 1, k) \o <<x>> \o SubSeq(sorted, k + 1, Len(sorted))

RECURSIVE SortByStartTime(_)
\* list.sort((a, b) => a.startTime - b.startTime)
SortByStartTime(list) ==
    IF Len(list) = 0 THEN <<>>
    ELSE InsertByStartTime(SortByStartTime(SubSeq(list, 1, Len(list) - 1)),
                           list[Len(list)])

\* parseRanges without its first test: `for (const range of undefined)`
\* raises a TypeError, written as the one-element list of its name
ParseRangesUnguarded(manifest) ==
    IF ~IsSome(manifest.structures) THEN <<"TypeError">>
    ELSE SortByStartTime(ProcessRanges(Get(manifest.structures), <<>>,
                                       BuildCanvasDurationMap(manifest.items)))

\* parseRanges that returns the chapters in traversal order
ParseRangesUnsorted(manifest) ==
    IF ~IsSome(manifest.structures) \/ Len(Get(manifest.structures)) = 0
    THEN <<>>
    ELSE ProcessRanges(Get(manifest.structures), <<>>,
                       BuildCanvasDurationMap(manifest.items))

\* parseRanges
ParseRanges(manifest) ==
    IF ~IsSome(manifest.structures) \/ Len(Get(manifest.structures)) = 0
    THEN <<>>
    ELSE SortByStartTime(ProcessRanges(Get(manifest.structures), <<>>,
                                       BuildCanvasDurationMap(manifest.items)))

-----------------------------------------------------------------------------
(* parseSpeakers.ts                                                        *)

\* the characters \s matches and String.prototype.trim removes
WhiteSpace == {" ", "\t", "\n", "\r"}

\* s.trim()
Trim(s) ==
    LET lead  == RunLen(s, 1, WhiteSpace)
        inner == {i \in 1..Len(s) : s[i] \notin WhiteSpace}
        last  == CHOOSE i \in inner : \A j \in inner : j <= i
    IN  IF inner = {} THEN <<>> ELSE SubSeq(s, lead + 1, last)

LowerCase == <<"a", "b", "c", "d", "e", "f", "g", "h", "i", "j", "k", "l", "m",
               "n", "o", "p", "q", "r", "s", "t", "u", "v", "w", "x", "y", "z">>

UpperCase == <<"A", "B", "C", "D", "E", "F", "G", "H", "I", "J", "K", "L", "M",
               "N", "O", "P", "Q", "R", "S", "T", "U", "V", "W", "X", "Y", "Z">>

\* the case folding of the regular expression flag i
ToUpper(c) ==
    IF \E k \in 1..Len(LowerCase) : LowerCase[k] = c
    THEN UpperCase[CHOOSE k \in 1..Len(LowerCase) : LowerCase[k] = c]
    ELSE c

\* s.split(sep) for a one-character separator: the parts between
\* consecutive occurrences of sep, the ends of s included
Split(s, sep) ==
    LET seps == {i \in 1..Len(s) : s[i] = sep}
        n    == Cardinality(seps)
        at(k) == IF k = 0 THEN 0
                 ELSE IF k = n + 1 THEN Len(s) + 1
                 ELSE CHOOSE i \in seps : Cardinality({j \in seps : j <= i}) = k
    IN  [k \in 1..(n + 1) |-> SubSeq(s, at(k - 1) + 1, at(k) - 1)]

RECURSIVE Join(_, _)
\* parts.join(sep)
Join(parts, sep) ==
    IF Len(parts) = 0 THEN <<>>
    ELSE IF Len(parts) = 1 THEN parts[1]
    ELSE parts[1] \o sep \o Join(Tail(parts), sep)

Arrow == <<"-", "-", ">">>

\* \d{2}:\d{2}:\d{2}\.\d{3} and \d{2}:\d{2}\.\d{3}, "d" standing for \d
PatternHMS == <<"d", "d", ":", "d", "d", ":", "d", "d", ".", "d", "d", "d">>

PatternMS == <<"d", "d", ":", "d", "d", ".", "d", "d", "d">>

\* the pattern matches s at position i
PatternAt(s, i, pattern) ==
    /\ i >= 1
    /\ i + Len(pattern) - 1 <= Len(s)
    /\ \A k \in 1..Len(pattern) :
          IF pattern[k] = "d" THEN s[i + k - 1] \in Digits
          ELSE s[i + k - 1] = pattern[k]

\* the length of the timestamp (HMS|MS) at position i, HMS tried first; 0
\* when neither matches.  The two cannot both match at one position.
TimestampLenAt(s, i) ==
    IF PatternAt(s, i, PatternHMS) THEN Len(PatternHMS)
    ELSE IF PatternAt(s, i, PatternMS) THEN Len(PatternMS)
    ELSE 0

\* the timing regular expression (HMS|MS)\s+-->\s+(HMS|MS) tried at position
\* i: None, or the two captured timestamps
TimingMatchAt(s, i) ==
    LET n1 == TimestampLenAt(s, i)
        w1 == RunLen(s, i + n1, WhiteSpace)
        a  == i + n1 + w1
        w2 == RunLen(s, a + Len(Arrow), WhiteSpace)
        q  == a + Len(Arrow) + w2
        n2 == TimestampLenAt(s, q)
    IN  IF n1 > 0 /\ w1 > 0 /\ MatchesAt(s, a, Arrow) /\ w2 > 0 /\ n2 > 0
        THEN Some([g1 |-> SubSeq(s, i, i + n1 - 1), g2 |-> SubSeq(s, q, q + n2 - 1)])
        ELSE None

\* timingLine.match(...)
TimingMatch(s) == FirstMatch([i \in 1..Len(s) |-> TimingMatchAt(s, i)])

\* parseInt(s, 10) of a string that starts with a digit run; NaN is None
ParseInt(s) ==
    IF RunLen(s, 1, Digits) = 0 THEN None
    ELSE Some(IntOf(SubSeq(s, 1, RunLen(s, 1, Digits))))

\* parseVTTTimestamp after the parts are read: null when one is NaN (None)
TimestampOf(hours, minutes, seconds) ==
    IF ~IsSome(hours) \/ ~IsSome(minutes) \/ ~IsSome(seconds) THEN None
    ELSE Some(Get(hours) * 3600 * Scale + Get(minutes) * 60 * Scale + Get(seconds))

\* parseVTTTimestamp on parts = timestamp.split(':')
TimestampOfParts(parts) ==
    IF Len(parts) = 3
    THEN TimestampOf(ParseInt(parts[1]), ParseInt(parts[2]), ParseFloat(parts[3]))
    ELSE IF Len(parts) = 2
    THEN TimestampOf(Some(0), ParseInt(parts[1]), ParseFloat(parts[2]))
    ELSE None

\* parseVTTTimestamp: the time in units of 1/Scale second, null is None
ParseVTTTimestamp(timestamp) == TimestampOfParts(Split(timestamp, ":"))

\* parseCueTiming after the two timestamps are parsed
TimingOf(startTime, endTime) ==
    IF ~IsSome(startTime) \/ ~IsSome(endTime) THEN None
    ELSE Some([startTime |-> Get(startTime), endTime |-> Get(endTime)])

\* parseCueTiming from the result of timingLine.match
TimingOfMatch(timingMatch) ==
    IF ~IsSome(timingMatch) THEN None
    ELSE TimingOf(ParseVTTTimestamp(Get(timingMatch).g1),
                  ParseVTTTimestamp(Get(timingMatch).g2))

\* parseCueTiming: null is None
ParseCueTiming(timingLine) == TimingOfMatch(TimingMatch(timingLine))

\* line.match(/^NOTE\s+/i) on a trimmed line
IsNoteLine(line) ==
    /\ Len(line) >= 5
    /\ [k \in 1..4 |-> ToUpper(line[k])] = <<"N", "O", "T", "E">>
    /\ line[5] \in WhiteSpace

\* a trimmed line at which collectCueText and skipCueLines stop
EndsCue(line) == line = <<>> \/ Includes(line, Arrow)

RECURSIVE CollectCueText(_, _)
\* collectCueText; startIndex counts lines from 1
CollectCueText(lines, startIndex) ==
    IF startIndex > Len(lines) THEN <<>>
    ELSE LET line == Trim(lines[startIndex])
         IN  IF EndsCue(line) THEN <<>>
             ELSE IF IsNoteLine(line) THEN CollectCueText(lines, startIndex + 1)
             ELSE <<line>> \o CollectCueText(lines, startIndex + 1)

RECURSIVE SkipFrom(_, _)
\* the loop of skipCueLines from line i
SkipFrom(lines, i) ==
    IF i > Len(lines) THEN i
    ELSE IF EndsCue(Trim(lines[i])) THEN i
    ELSE SkipFrom(lines, i + 1)

\* skipCueLines whose loop begins at startIndex itself
SkipCueLinesFromItself(lines, startIndex) == SkipFrom(lines, startIndex)

\* skipCueLines: the index of the line that ends the cue at startIndex
SkipCueLines(lines, startIndex) == SkipFrom(lines, startIndex + 1)

\* extractSpeakerFromVoiceTag: text.match(/^<v\s+([^>]+)>/i), the capture
\* trimmed; null is None.  \s+ is greedy and gives back one character when
\* the run of white space is followed at once by '>'.
ExtractSpeakerFromVoiceTag(text) ==
    LET w     == RunLen(text, 3, WhiteSpace)
        n     == RunLen(text, 3 + w, {text[k] : k \in 1..Len(text)} \ {">"})
        close == 3 + w + n
    IN  IF Len(text) < 2 \/ text[1] # "<" \/ ToUpper(text[2]) # "V" \/ w = 0
        THEN None
        ELSE IF close > Len(text) THEN None
        ELSE IF n > 0 THEN Some(Trim(SubSeq(text, 3 + w, close - 1)))
        ELSE IF w >= 2 THEN Some(Trim(SubSeq(text, 3 + w - 1, close - 1)))
        ELSE None

\* parseCue after the timing line is parsed and the payload is joined
CueOf(timing, fullText) ==
    IF ~IsSome(timing) THEN None
    ELSE Some([startTime |-> Get(timing).startTime,
               endTime   |-> Get(timing).endTime,
               speaker   |-> ExtractSpeakerFromVoiceTag(fullText),
               text      |-> fullText])

\* parseCue: null is None; a cue without voice tag has speaker None
ParseCue(lines, startIndex) ==
    IF Len(lines[startIndex]) = 0 THEN None
    ELSE CueOf(ParseCueTiming(lines[startIndex]),
               Join(CollectCueText(lines, startIndex + 1), <<" ">>))

\* if (cue) cues.push(cue)
PushCue(cues, cue) == IF IsSome(cue) THEN Append(cues, Get(cue)) ELSE cues

RECURSIVE ScanFrom(_, _, _)

\* the while loop of parseVTTCues that gives up at a timing line that does
\* not parse
ScanFromStopping(lines, i, cues) ==
    IF i > Len(lines) THEN cues
    ELSE IF Includes(Trim(lines[i]), Arrow)
    THEN IF IsSome(ParseCue(lines, i))
         THEN ScanFrom(lines, SkipCueLines(lines, i), PushCue(cues, ParseCue(lines, i)))
         ELSE cues
    ELSE ScanFrom(lines, i + 1, cues)
\* the while loop of parseVTTCues from line i (counted from 1) with the
\* cues found so far
ScanFrom(lines, i, cues) ==
    IF i > Len(lines) THEN cues
    ELSE IF Includes(Trim(lines[i]), Arrow)
    THEN ScanFrom(lines, SkipCueLines(lines, i), PushCue(cues, ParseCue(lines, i)))
    ELSE ScanFrom(lines, i + 1, cues)

\* parseVTTCues
ParseVTTCues(vttContent) == ScanFrom(Split(vttContent, "\n"), 1, <<>>)

RECURSIVE GroupFrom(_, _, _, _)

\* the for loop of groupBySpeaker that extends the open segment whenever
\* the speaker is the same, whatever the cue's start time
GroupFromSameSpeaker(cues, i, current, segments) ==
    IF i > Len(cues) THEN Append(segments, current)
    ELSE IF cues[i].speaker = Some(current.speaker)
    THEN GroupFrom(cues, i + 1, [current EXCEPT !.endTime = cues[i].endTime], segments)
    ELSE GroupFrom(cues, i + 1,
                   [speaker   |-> Get(cues[i].speaker),
                    startTime |-> cues[i].startTime,
                    endTime   |-> cues[i].endTime],
                   Append(segments, current))

\* the for loop of groupBySpeaker from cue i, with the open segment
\* current and the closed segments; the final push when the cues end
GroupFrom(cues, i, current, segments) ==
    IF i > Len(cues) THEN Append(segments, current)
    ELSE IF cues[i].speaker = Some(current.speaker)
            /\ cues[i].startTime = current.endTime
    THEN GroupFrom(cues, i + 1, [current EXCEPT !.endTime = cues[i].endTime], segments)
    ELSE GroupFrom(cues, i + 1,
                   [speaker   |-> Get(cues[i].speaker),
                    startTime |-> cues[i].startTime,
                    endTime   |-> cues[i].endTime],
                   Append(segments, current))

\* groupBySpeaker
GroupBySpeaker(cues) ==
    IF Len(cues) = 0 THEN <<>>
    ELSE GroupFrom(cues, 2,
                   [speaker   |-> Get(cues[1].speaker),
                    startTime |-> cues[1].startTime,
                    endTime   |-> cues[1].endTime],
                   <<>>)

\* the cues merged first, a speakerless cue standing as a cue of a speaker
\* of its own (a line break, which no voice tag can name), and the segments
\* of that speaker removed afterwards
FilterAfterMerging(cues) ==
    SelectSeq(GroupBySpeaker([i \in 1..Len(cues) |->
                                 IF IsSome(cues[i].speaker) THEN cues[i]
                                 ELSE [cues[i] EXCEPT !.speaker = Some(<<"\n">>)]]),
              LAMBDA segment : segment.speaker # <<"\n">>)

\* parseSpeakers that removes the speakerless cues after merging
ParseSpeakersFilterAfter(vttContent) ==
    IF Len(vttContent) = 0 \/ Trim(vttContent) = <<>> THEN <<>>
    ELSE SortByStartTime(FilterAfterMerging(ParseVTTCues(vttContent)))

\* parseSpeakers that returns the segments in document order
ParseSpeakersUnsorted(vttContent) ==
    IF Len(vttContent) = 0 \/ Trim(vttContent) = <<>> THEN <<>>
    ELSE GroupBySpeaker(
             SelectSeq(ParseVTTCues(vttContent), LAMBDA cue : IsSome(cue.speaker)))

\* parseSpeakers
ParseSpeakers(vttContent) ==
    IF Len(vttContent) = 0 \/ Trim(vttContent) = <<>> THEN <<>>
    ELSE SortByStartTime(
             GroupBySpeaker(
                 SelectSeq(ParseVTTCues(vttContent), LAMBDA cue : IsSome(cue.speaker))))

-----------------------------------------------------------------------------
(* parseAnnotationTarget.ts                                                *)

\* isNaN(num) || num < 0 ? undefined : num
NonNegative(num) == IF ~IsSome(num) \/ Get(num) < 0 THEN None ELSE num

\* parseNonNegativeValue: str is optional, undefined is None
ParseNonNegativeValue(str) ==
    IF ~IsSome(str) \/ Get(str) = <<>> THEN None
    ELSE NonNegative(ParseFloat(Get(str)))

TEquals == <<"t", "=">>

\* the end of a match that lets a minus sign stand before the second run:
\* /t=([0-9.]*),?-?([0-9.]*)/
FragmentTemporalGroupsSigned(fragment, i, c) ==
    IF c < Len(fragment) /\ fragment[c] = "," /\ fragment[c + 1] = "-"
    THEN [g1 |-> SubSeq(fragment, i + Len(TEquals), c - 1),
          g2 |-> SubSeq(fragment, c + 2, c + 1 + RunLen(fragment, c + 2, NumChars))]
    ELSE IF c <= Len(fragment) /\ fragment[c] = ","
    THEN [g1 |-> SubSeq(fragment, i + Len(TEquals), c - 1),
          g2 |-> SubSeq(fragment, c + 1, c + RunLen(fragment, c + 1, NumChars))]
    ELSE [g1 |-> SubSeq(fragment, i + Len(TEquals), c - 1), g2 |-> <<>>]

\* the end of fragment.match(/t=([0-9.]*),?([0-9.]*)/) that began at
\* position i: the first run ends before position c
FragmentTemporalGroups(fragment, i, c) ==
    IF c <= Len(fragment) /\ fragment[c] = ","
    THEN [g1 |-> SubSeq(fragment, i + Len(TEquals), c - 1),
          g2 |-> SubSeq(fragment, c + 1, c + RunLen(fragment, c + 1, NumChars))]
    ELSE [g1 |-> SubSeq(fragment, i + Len(TEquals), c - 1), g2 |-> <<>>]

\* fragment.match with a pattern that lets a minus sign follow "t=":
\* /t=-?([0-9.]*),?([0-9.]*)/
FragmentTemporalMatchAtSigned(fragment, i) ==
    IF i = 0 THEN None
    ELSE IF i + Len(TEquals) <= Len(fragment) /\ fragment[i + Len(TEquals)] = "-"
    THEN Some(FragmentTemporalGroups(fragment, i + 1,
                  i + 1 + Len(TEquals)
                    + RunLen(fragment, i + 1 + Len(TEquals), NumChars)))
    ELSE Some(FragmentTemporalGroups(fragment, i,
                  i + Len(TEquals) + RunLen(fragment, i + Len(TEquals), NumChars)))

\* fragment.match(/t=([0-9.]*),?([0-9.]*)/): everything after "t=" is
\* optional, so the match is at the first "t=", with the two greedy runs
FragmentTemporalMatchAt(fragment, i) ==
    IF i = 0 THEN None
    ELSE Some(FragmentTemporalGroups(fragment, i,
                  i + Len(TEquals) + RunLen(fragment, i + Len(TEquals), NumChars)))

\* fragment.match with the pattern tied to the start of the fragment:
\* /^t=([0-9.]*),?([0-9.]*)/
FragmentTemporalMatchAnchored(fragment) ==
    FragmentTemporalMatchAt(fragment, IF MatchesAt(fragment, 1, TEquals) THEN 1 ELSE 0)

FragmentTemporalMatch(fragment) ==
    FragmentTemporalMatchAt(fragment, IndexOf(fragment, TEquals))

\* parseTemporalFromFragment that does not compare end with start
TemporalOfUnordered(start, end) ==
    IF ~IsSome(start) THEN None
    ELSE Some([start |-> Get(start), end |-> end])

\* parseTemporalFromFragment that keeps the start and drops only an end
\* that is not after it
TemporalOfStartOnly(start, end) ==
    IF ~IsSome(start) THEN None
    ELSE IF IsSome(end) /\ Get(end) <= Get(start)
    THEN Some([start |-> Get(start), end |-> None])
    ELSE Some([start |-> Get(start), end |-> end])

\* parseTemporalFromFragment once start and end are parsed
TemporalOf(start, end) ==
    IF ~IsSome(start) THEN None
    ELSE IF IsSome(end) /\ Get(end) <= Get(start) THEN None
    ELSE Some([start |-> Get(start), end |-> end])

\* parseTemporalFromFragment that reads an empty start as 0 even when the
\* end is empty too
TemporalOfGroupsDefaulting(startStr, endStr) ==
    TemporalOf(IF startStr = <<>> THEN Some(0)
               ELSE ParseNonNegativeValue(Some(startStr)),
               ParseNonNegativeValue(Some(endStr)))

\* parseTemporalFromFragment on startStr = match[1], endStr = match[2]
TemporalOfGroups(startStr, endStr) ==
    IF startStr = <<>> /\ endStr = <<>> THEN None
    ELSE TemporalOf(IF startStr = <<>> THEN Some(0)
                    ELSE ParseNonNegativeValue(Some(startStr)),
                    ParseNonNegativeValue(Some(endStr)))

\* parseTemporalFromFragment from the result of fragment.match
TemporalOfMatch(match) ==
    IF ~IsSome(match) THEN None
    ELSE TemporalOfGroups(Get(match).g1, Get(match).g2)

\* parseTemporalFromFragment: undefined is None; {start, end} has an
\* optional end
ParseTemporalFromFragment(fragment) == TemporalOfMatch(FragmentTemporalMatch(fragment))

Xywh == <<"x", "y", "w", "h", "=">>

PixelPrefix == <<"p", "i", "x", "e", "l", ":">>

PercentPrefix == <<"p", "e", "r", "c", "e", "n", "t", ":">>

\* some(v) with x put in front of the list v, none staying none
Prepend(x, rest) == IF IsSome(rest) THEN Some(<<x>> \o Get(rest)) ELSE None

RECURSIVE RunsFrom(_, _, _)
\* ([0-9.]+),([0-9.]+), ... with k runs, matched at position p: the runs,
\* or None
RunsFrom(s, p, k) ==
    LET n == RunLen(s, p, NumChars)
    IN  IF n = 0 THEN None
        ELSE IF k = 1 THEN Some(<<SubSeq(s, p, p + n - 1)>>)
        ELSE IF p + n <= Len(s) /\ s[p + n] = ","
        THEN Prepend(SubSeq(s, p, p + n - 1), RunsFrom(s, p + n + 1, k - 1))
        ELSE None

\* the groups of the spatial pattern, given its unit prefix and its runs
SpatialGroups(prefix, runs) ==
    IF IsSome(runs) THEN Some([prefix |-> prefix, runs |-> Get(runs)]) ELSE None

\* /xywh=(pixel:|percent:)?([0-9.]+),([0-9.]+),([0-9.]+),([0-9.]+)/ tried
\* at position i.  A prefix that is present must be taken: without it the
\* first run would have to start at its "p".
SpatialMatchAt(fragment, i) ==
    IF ~MatchesAt(fragment, i, Xywh) THEN None
    ELSE IF MatchesAt(fragment, i + Len(Xywh), PixelPrefix)
    THEN SpatialGroups(Some(PixelPrefix),
                       RunsFrom(fragment, i + Len(Xywh) + Len(PixelPrefix), 4))
    ELSE IF MatchesAt(fragment, i + Len(Xywh), PercentPrefix)
    THEN SpatialGroups(Some(PercentPrefix),
                       RunsFrom(fragment, i + Len(Xywh) + Len(PercentPrefix), 4))
    ELSE SpatialGroups(None, RunsFrom(fragment, i + Len(Xywh), 4))

\* fragment.match(/xywh=.../)
SpatialMatch(fragment) ==
    FirstMatch([i \in 1..Len(fragment) |-> SpatialMatchAt(fragment, i)])

\* parseSpatialFromFragment that tests each percent value against 100 but
\* not x + width and y + height
SpatialOfUnsummed(unit, x, y, width, height) ==
    IF ~IsSome(x) \/ ~IsSome(y) \/ ~IsSome(width) \/ ~IsSome(height) THEN None
    ELSE IF unit = "percent"
            /\ \/ Get(x) > 100 * Scale
               \/ Get(y) > 100 * Scale
               \/ Get(width) > 100 * Scale
               \/ Get(height) > 100 * Scale
    THEN None
    ELSE Some([x |-> Get(x), y |-> Get(y), width |-> Get(width),
               height |-> Get(height), unit |-> unit])

\* a value that was not parsed read as 0
OrZero(v) == IF IsSome(v) THEN v ELSE Some(0)

\* parseSpatialFromFragment that reads a value it cannot parse as 0
SpatialOfLenient(unit, x, y, width, height) ==
    IF unit = "percent"
       /\ \/ Get(OrZero(x)) > 100 * Scale
          \/ Get(OrZero(y)) > 100 * Scale
          \/ Get(OrZero(width)) > 100 * Scale
          \/ Get(OrZero(height)) > 100 * Scale
          \/ Get(OrZero(x)) + Get(OrZero(width)) > 100 * Scale
          \/ Get(OrZero(y)) + Get(OrZero(height)) > 100 * Scale
    THEN None
    ELSE Some([x |-> Get(OrZero(x)), y |-> Get(OrZero(y)),
               width |-> Get(OrZero(width)), height |-> Get(OrZero(height)),
               unit |-> unit])

\* parseSpatialFromFragment once the four values are parsed; 100 is
\* 100 * Scale in the model's unit
SpatialOf(unit, x, y, width, height) ==
    IF ~IsSome(x) \/ ~IsSome(y) \/ ~IsSome(width) \/ ~IsSome(height) THEN None
    ELSE IF unit = "percent"
            /\ \/ Get(x) > 100 * Scale
               \/ Get(y) > 100 * Scale
               \/ Get(width) > 100 * Scale
               \/ Get(height) > 100 * Scale
               \/ Get(x) + Get(width) > 100 * Scale
               \/ Get(y) + Get(height) > 100 * Scale
    THEN None
    ELSE Some([x |-> Get(x), y |-> Get(y), width |-> Get(width),
               height |-> Get(height), unit |-> unit])

\* parseSpatialFromFragment from the result of fragment.match
SpatialOfMatch(match) ==
    IF ~IsSome(match) THEN None
    ELSE SpatialOf(IF Get(match).prefix = Some(PercentPrefix) THEN "percent" ELSE "pixel",
                   ParseNonNegativeValue(Some(Get(match).runs[1])),
                   ParseNonNegativeValue(Some(Get(match).runs[2])),
                   ParseNonNegativeValue(Some(Get(match).runs[3])),
                   ParseNonNegativeValue(Some(Get(match).runs[4])))

\* parseSpatialFromFragment: undefined is None
ParseSpatialFromFragment(fragment) == SpatialOfMatch(SpatialMatch(fragment))

\* parseMediaFragment once hashIndex = uri.indexOf('#') is known (0 stands
\* for -1); a property that is absent or undefined is None
MediaFragmentAt(uri, hashIndex) ==
    IF hashIndex = 0
    THEN [source |-> uri, temporal |-> None, spatial |-> None]
    ELSE [source   |-> SubSeq(uri, 1, hashIndex - 1),
          temporal |-> ParseTemporalFromFragment(SubSeq(uri, hashIndex + 1, Len(uri))),
          spatial  |-> ParseSpatialFromFragment(SubSeq(uri, hashIndex + 1, Len(uri)))]

\* parseMediaFragment with hashIndex = uri.lastIndexOf('#')
ParseMediaFragmentLastHash(uri) ==
    MediaFragmentAt(uri,
        IF Includes(uri, <<"#">>)
        THEN CHOOSE i \in DOMAIN uri :
                 /\ uri[i] = "#"
                 /\ \A j \in DOMAIN uri : uri[j] = "#" => j <= i
        ELSE 0)

\* parseMediaFragment
ParseMediaFragment(uri) == MediaFragmentAt(uri, IndexOf(uri, <<"#">>))

\* extractSourceUri: a source is a string or an object with an id
ExtractSourceUri(source) == IF source.isObject THEN source.id ELSE source.string

\* parseStringTarget: null is None
ParseStringTarget(target) ==
    IF target = <<>> THEN None ELSE Some(ParseMediaFragment(target))

Dummy == <<"d", "u", "m", "m", "y", "#">>

\* { source, temporal: fragmentResult.temporal, spatial: fragmentResult.spatial }
WithSource(source, fragmentResult) ==
    [source |-> source, temporal |-> fragmentResult.temporal,
     spatial |-> fragmentResult.spatial]

\* parseSpecificResourceTarget that hands the selector value to
\* parseMediaFragment as it is, without `dummy#` before it
ParseSpecificResourceTargetBare(target) ==
    IF /\ IsSome(target.selector)
       /\ Get(target.selector).type = "FragmentSelector"
       /\ IsSome(Get(target.selector).value)
       /\ Get(Get(target.selector).value) # <<>>
    THEN WithSource(ExtractSourceUri(target.source),
                    ParseMediaFragment(Get(Get(target.selector).value)))
    ELSE [source   |-> ExtractSourceUri(target.source),
          temporal |-> None,
          spatial  |-> None]

\* parseSpecificResourceTarget that does not test the selector's type
ParseSpecificResourceTargetAnyType(target) ==
    IF /\ IsSome(target.selector)
       /\ IsSome(Get(target.selector).value)
       /\ Get(Get(target.selector).value) # <<>>
    THEN WithSource(ExtractSourceUri(target.source),
                    ParseMediaFragment(Dummy \o Get(Get(target.selector).value)))
    ELSE [source   |-> ExtractSourceUri(target.source),
          temporal |-> None,
          spatial  |-> None]

\* parseSpecificResourceTarget; a selector and its value are optional
ParseSpecificResourceTarget(target) ==
    IF /\ IsSome(target.selector)
       /\ Get(target.selector).type = "FragmentSelector"
       /\ IsSome(Get(target.selector).value)
       /\ Get(Get(target.selector).value) # <<>>
    THEN WithSource(ExtractSourceUri(target.source),
                    ParseMediaFragment(Dummy \o Get(Get(target.selector).value)))
    ELSE [source   |-> ExtractSourceUri(target.source),
          temporal |-> None,
          spatial  |-> None]

\* parseAnnotationTarget that takes every object for a SpecificResource
ParseAnnotationTargetAnyObject(target) ==
    IF target.kind = "null" \/ (target.kind = "string" /\ target.value = <<>>)
    THEN None
    ELSE IF target.kind = "string" THEN ParseStringTarget(target.value)
    ELSE Some(ParseSpecificResourceTarget(target))

\* parseAnnotationTarget: null is None.  A target is null, a string or an
\* object (kind); an object without type has type "".
ParseAnnotationTarget(target) ==
    IF target.kind = "null" \/ (target.kind = "string" /\ target.value = <<>>)
    THEN None
    ELSE IF target.kind = "string" THEN ParseStringTarget(target.value)
    ELSE IF target.type = "SpecificResource"
    THEN Some(ParseSpecificResourceTarget(target))
    ELSE None

-----------------------------------------------------------------------------
(* The manifests parseRanges is called on.                                 *)

\* every sequence over S of length at most n
SeqsUpTo(S, n) == UNION {[1..k -> S] : k \in 0..n}

\* a leaf reference of a range
Canvas(id) == [id |-> id, type |-> "Canvas"]

\* a range node without label, thumbnail or metadata
Range(id, items) ==
    [id |-> id, type |-> "Range", items |-> items,
     label |-> None, thumbnail |-> None, metadata |-> None]

\* an entry of manifest.items
ManifestCanvas(id, duration) == [id |-> id, type |-> "Canvas", duration |-> duration]

Manifest(structures, items) == [structures |-> structures, items |-> items]

IdC == <<"c">>

IdD == <<"d">>

\* the one declared canvas of most manifests: c, two seconds long
ItemsC == Some(<<ManifestCanvas(IdC, Some(2 * Scale))>>)

\* the characters fragment bodies are made of: two digits, the dot, the
\* comma, and "-" for a character outside every class
BodyChars == {"0", "1", ".", ",", "-"}

Bodies == SeqsUpTo(BodyChars, MaxBodyLen)

\* what precedes "#t=" in a leaf reference: nothing, a plain id, an id with
\* an earlier '#', an id with an earlier temporal fragment
Bases == {<<>>, IdC, IdC \o <<"#">>, IdC \o TFrag \o <<"1">>}

\* one range, one leaf reference base#t=body, over the canvas c
FragmentManifest(base, body) ==
    Manifest(Some(<<Range(<<"r">>, Some(<<Canvas(base \o TFrag \o body)>>))>>), ItemsC)

\* declared durations: none, zero, two seconds
Durations == {None, Some(0), Some(2 * Scale)}

ManifestCanvases == {ManifestCanvas(id, d) : id \in {<<>>, IdC}, d \in Durations}

\* the enumerated manifest.items: missing, or any list of at most
\* MaxCanvases entries
ManifestItems == {None} \cup {Some(cs) : cs \in SeqsUpTo(ManifestCanvases, MaxCanvases)}

\* one range whose leaf reference base#t=1 is open-ended
DurationManifest(base, items) ==
    Manifest(Some(<<Range(<<"r">>, Some(<<Canvas(base \o TFrag \o <<"1">>)>>))>>), items)

\* the leaf references range forests are built from
LeafRefs ==
    { Canvas(IdC \o TFrag \o <<"1", ",", "2">>),      \* closed, 1 to 2
      Canvas(IdC \o TFrag \o <<"0", ",", "1">>),      \* closed, 0 to 1
      Canvas(IdC \o TFrag \o <<"0">>),                \* open-ended, c declares 2
      Canvas(IdD \o TFrag \o <<"0">>),                \* open-ended, d is not declared
      Canvas(IdC \o TFrag \o <<"2", ",", "1">>),      \* malformed: end before start
      Canvas(IdC),                                    \* no fragment
      [id |-> IdC \o TFrag \o <<"0", ",", "2">>, type |-> "Other"] }

RECURSIVE ItemForests(_, _, _)
RECURSIVE ItemTrees(_, _)

\* the item lists of exactly n nodes whose first item sits at position k of
\* the range called path; a nested range is named by its path of positions
ItemForests(n, path, k) ==
    IF n = 0 THEN {<<>>}
    ELSE UNION { LET firsts == ItemTrees(m, path \o <<DigitChar(k)>>)
                     rests  == ItemForests(n - m, path, k + 1)
                 IN  {<<t>> \o rest : t \in firsts, rest \in rests} :
                 m \in 1..n }

\* the items of exactly m nodes: a leaf reference, or a range named id
ItemTrees(m, id) ==
    (IF m = 1 THEN LeafRefs \cup {Range(id, None)} ELSE {})
    \cup {Range(id, Some(items)) : items \in ItemForests(m - 1, id, 1)}

RECURSIVE RangeForests(_, _)
\* the lists of top-level ranges of exactly n nodes, the first at position k
RangeForests(n, k) ==
    IF n = 0 THEN {<<>>}
    ELSE UNION { LET firsts == {x \in ItemTrees(m, <<"r", DigitChar(k)>>) : x.type = "Range"}
                     rests  == RangeForests(n - m, k + 1)
                 IN  {<<t>> \o rest : t \in firsts, rest \in rests} :
                 m \in 1..n }

\* the forests of top-level ranges, by their number of nodes
TreeForests == [n \in 0..MaxNodes |-> RangeForests(n, 1)]

\* a forest of ranges over the canvas c
TreeManifest(forest) == Manifest(Some(forest), ItemsC)

\* language maps: entries in insertion order
LabelMaps ==
    { None,
      Some(<<>>),
      Some(<<[lang |-> "en", values |-> <<"Intro">>]>>),
      Some(<<[lang |-> "fr", values |-> <<"Debut">>], [lang |-> "en", values |-> <<"Intro">>]>>),
      Some(<<[lang |-> "en", values |-> <<"">>], [lang |-> "fr", values |-> <<"Debut">>]>>),
      Some(<<[lang |-> "en", values |-> <<>>], [lang |-> "fr", values |-> <<"", "Suite">>],
             [lang |-> "de", values |-> <<"Anfang">>]>>),
      Some(<<[lang |-> "fr", values |-> <<"">>]>>) }

Thumbnails == {None, Some(<<>>), Some(<<[id |-> "thumb1", type |-> "Image"],
                                        [id |-> "thumb2", type |-> "Image"]>>)}

Metadatas ==
    { None, Some(<<>>),
      Some(<<[label |-> Some(<<[lang |-> "en", values |-> <<"Date">>]>>),
              value |-> Some(<<[lang |-> "en", values |-> <<"1970">>]>>)],
             [label |-> Some(<<[lang |-> "en", values |-> <<"Date">>]>>),
              value |-> Some(<<[lang |-> "en", values |-> <<"1971">>]>>)]>>) }

\* one range with a closed leaf reference and a label, thumbnails, metadata
DescribedManifest(label, thumbnail, metadata) ==
    Manifest(Some(<<[id |-> <<"r">>, type |-> "Range",
                     items |-> Some(<<Canvas(IdC \o TFrag \o <<"1", ",", "2">>)>>),
                     label |-> label, thumbnail |-> thumbnail,
                     metadata |-> metadata]>>), ItemsC)

-----------------------------------------------------------------------------
(* The caption documents parseSpeakers is called on.                       *)

TwoDigits(n) == <<DigitChar(n \div 10), DigitChar(n % 10)>>

\* MM:SS.000 of a whole number of seconds
StampMS(sec) == TwoDigits(sec \div 60) \o <<":">> \o TwoDigits(sec % 60) \o <<".", "0", "0", "0">>

\* HH:MM:SS.000 of a whole number of seconds
StampHMS(sec) == TwoDigits(sec \div 3600) \o <<":">> \o StampMS(sec % 3600)

TimingLine(start, end) == StampMS(start) \o <<" ">> \o Arrow \o <<" ">> \o StampMS(end)

SpeakerA == <<"A">>

SpeakerB == <<"B">>

\* a payload line with a voice tag
Voiced(speaker) == <<"<", "v", " ">> \o speaker \o <<">", "x">>

\* a payload line without voice tag
Unvoiced == <<"x">>

\* the timings of enumerated cues, in seconds: two that touch and one
\* whose end precedes its start
CueTimings == {<<0, 5>>, <<5, 10>>, <<10, 5>>}

CuePayloads == {Voiced(SpeakerA), Voiced(SpeakerB), Unvoiced}

CueChoices == CueTimings \X CuePayloads

RECURSIVE CueLines(_)
\* the lines of a list of cues, a blank line before each
CueLines(cues) ==
    IF Len(cues) = 0 THEN <<>>
    ELSE <<<<>>, TimingLine(cues[1][1][1], cues[1][1][2]), cues[1][2]>> \o CueLines(Tail(cues))

Webvtt == <<"W", "E", "B", "V", "T", "T">>

\* a caption document: the header, then the cues
CueDocument(cues) == Join(<<Webvtt>> \o CueLines(cues), <<"\n">>)

\* payloads of one cue from 0 to 5 seconds: forms of the voice tag
TagPayloads ==
    { <<<<"<", "V", " ", "A", ">", "x">>>>,                    \* <V A>x
      <<<<"<", "v", " ", " ", "A", " ", ">", "x">>>>,          \* <v  A >x
      <<<<"<", "v", "\t", "A", " ", "B", ">", "x">>>>,         \* <v\tA B>x
      <<<<"<", "v", " ", " ", ">", "x">>>>,                    \* <v  >x
      <<<<"<", "v", " ", ">", "x">>>>,                         \* <v >x
      <<<<"<", "v", "A", ">", "x">>>>,                         \* <vA>x
      <<<<"<", "v", " ", "A">>>>,                              \* <v A
      <<<<"x", "<", "v", " ", "A", ">">>>>,                    \* x<v A>
      <<<<" ", "<", "v", " ", "A", ">", "x">>>>,               \* indented tag
      <<<<"<", "v">>, <<"A", ">", "x">>>>,                     \* tag over two lines
      <<<<"N", "O", "T", "E", " ", "n">>, <<"<", "v", " ", "A", ">">>>>,
      <<<<"N", "O", "T", "E">>, <<"<", "v", " ", "A", ">">>>>,
      <<>> }

TagDocument(payload) ==
    Join(<<Webvtt, <<>>, TimingLine(0, 5)>> \o payload, <<"\n">>)

\* the lines of enumerated line-by-line documents
LineChoices ==
    { TimingLine(0, 5),
      StampHMS(5) \o <<" ", " ">> \o Arrow \o <<"\t">> \o StampHMS(10) \o <<" ", "a">>,
      <<"0", "0", ":", "0", "5", " ">> \o Arrow \o <<" ", "0", "0", ":", "1", "0">>,
      Voiced(SpeakerA),
      Unvoiced,
      <<"n", "o", "t", "e", " ", "n">>,
      <<" ">> }

\* the lines of the documents whose scan is followed step by step: a
\* timing line, a line with an arrow that is no timing line, a payload
\* line, a line that trims to nothing
ScanLineChoices ==
    { TimingLine(0, 5),
      <<"0", "0", ":", "0", "5", " ">> \o Arrow \o <<" ", "0", "0", ":", "1", "0">>,
      Voiced(SpeakerA),
      <<" ">> }

-----------------------------------------------------------------------------
(* The URIs and targets the fragment parsers are called on.                *)

Sources == {<<>>, IdC}

\* what stands between the first '#' and "t="
Leads == {<<>>, <<"x">>, <<"x", "#">>}

\* source#lead t=body
TemporalUri(source, lead, body) == source \o <<"#">> \o lead \o TEquals \o body

UnitPrefixes == {<<>>, PixelPrefix, PercentPrefix, <<"p", "x", ":">>}

\* a value that is not a number, 0, two values that sum to 100, one above
SpatialValues == {<<".">>, <<"0">>, <<"4", "0">>, <<"6", "0">>, <<"1", "0", "1">>}

\* three or four values
SpatialRuns == UNION {[1..n -> SpatialValues] : n \in 3..4}

\* xywh=prefix v1,v2,...
SpatialPart(prefix, values) == Xywh \o prefix \o Join(values, <<",">>)

TemporalParts ==
    { TEquals \o <<"1", ",", "2">>,
      TEquals \o <<"2", ",", "1">>,
      TEquals \o <<"1", ",", "1">>,
      TEquals \o <<"-", "1", ",", "2">>,
      TEquals \o <<"1", ",", "-", "2">>,
      TEquals \o <<",", "2">>,
      TEquals \o <<"1">>,
      TEquals \o <<",">>,
      TEquals }

\* t=body for the enumerated bodies
ShortTemporalParts == {TEquals \o body : body \in Bodies}

SpatialParts ==
    { SpatialPart(<<>>, <<<<"0">>, <<"0">>, <<"4", "0">>, <<"6", "0">>>>),
      SpatialPart(PercentPrefix, <<<<"6", "0">>, <<"0">>, <<"6", "0">>, <<"0">>>>),
      SpatialPart(<<>>, <<<<"0">>, <<"0">>>>) }

\* c#first&second
TwoPartUri(first, second) == IdC \o <<"#">> \o first \o <<"&">> \o second

\* URIs without '#'
PlainUris == {<<>>, IdC, IdC \o TEquals \o <<"1">>}

\* the forms of an annotation target: null, a string, an object
NullTarget ==
    [kind |-> "null", value |-> <<>>, type |-> "",
     source |-> [isObject |-> FALSE, string |-> <<>>, id |-> <<>>],
     selector |-> None]

StringTarget(value) == [NullTarget EXCEPT !.kind = "string", !.value = value]

ObjectTarget(type, source, selector) ==
    [NullTarget EXCEPT !.kind = "object", !.type = type, !.source = source,
                       !.selector = selector]

\* a source given as the string uri or as an object with the id uri
SourceForms(uri) ==
    { [isObject |-> FALSE, string |-> uri, id |-> <<>>],
      [isObject |-> TRUE, string |-> <<>>, id |-> uri] }

Selector(type, value) == [type |-> type, value |-> value]

SelectorValues ==
    { <<>>,
      TEquals \o <<"1", ",", "2">>,
      TEquals \o <<"2", ",", "1">>,
      <<"x", "#">> \o TEquals \o <<"1", ",", "2">>,
      SpatialPart(PercentPrefix, <<<<"0">>, <<"0">>, <<"4", "0">>, <<"6", "0">>>>) }

\* no selector, a selector without value, selectors of two types with values
Selectors ==
    {None, Some(Selector("FragmentSelector", None))}
        \cup {Some(Selector(type, Some(value))) :
                 type \in {"FragmentSelector", "PointSelector"},
                 value \in SelectorValues}

ObjectTypes == {"SpecificResource", "Annotation", ""}

-----------------------------------------------------------------------------
(* The caller.                                                             *)

Init ==
    /\ call = "none"
    /\ arg = None
    /\ ret = None
    /\ scan = None

\* chapters = parseRanges(manifest)
CallParseRanges(manifest) ==
    /\ call = "none"
    /\ call' = "parseRanges"
    /\ arg' = manifest
    /\ ret' = ParseRanges(manifest)
    /\ UNCHANGED scan

NextRanges ==
    \/ \E base \in Bases, body \in Bodies :
          CallParseRanges(FragmentManifest(base, body))
    \/ \E base \in {<<>>, IdC, IdD}, items \in ManifestItems :
          CallParseRanges(DurationManifest(base, items))
    \/ \E n \in 0..MaxNodes : \E forest \in TreeForests[n] :
          CallParseRanges(TreeManifest(forest))
    \/ \E label \in LabelMaps, thumbnail \in Thumbnails, metadata \in Metadatas :
          CallParseRanges(DescribedManifest(label, thumbnail, metadata))
    \/ \E structures \in {None, Some(<<>>)}, items \in ManifestItems :
          CallParseRanges(Manifest(structures, items))

SpecRanges == Init /\ [][NextRanges]_vars

\* segments = parseSpeakers(vttContent)
CallParseSpeakers(vttContent) ==
    /\ call = "none"
    /\ call' = "parseSpeakers"
    /\ arg' = vttContent
    /\ ret' = ParseSpeakers(vttContent)
    /\ UNCHANGED scan

NextSpeakers ==
    \/ \E cues \in SeqsUpTo(CueChoices, MaxCues) :
          CallParseSpeakers(CueDocument(cues))
    \/ \E payload \in TagPayloads : CallParseSpeakers(TagDocument(payload))
    \/ \E lines \in SeqsUpTo(LineChoices, MaxLines) :
          CallParseSpeakers(Join(lines, <<"\n">>))

SpecSpeakers == Init /\ [][NextSpeakers]_vars

\* result = parseMediaFragment(uri)
CallParseMediaFragment(uri) ==
    /\ call = "none"
    /\ call' = "parseMediaFragment"
    /\ arg' = uri
    /\ ret' = ParseMediaFragment(uri)
    /\ UNCHANGED scan

\* result = parseAnnotationTarget(target)
CallParseAnnotationTarget(target) ==
    /\ call = "none"
    /\ call' = "parseAnnotationTarget"
    /\ arg' = target
    /\ ret' = ParseAnnotationTarget(target)
    /\ UNCHANGED scan

NextFragment ==
    \/ \E source \in Sources, lead \in Leads, body \in Bodies :
          CallParseMediaFragment(TemporalUri(source, lead, body))
    \/ \E prefix \in UnitPrefixes, values \in SpatialRuns :
          CallParseMediaFragment(IdC \o <<"#">> \o SpatialPart(prefix, values))
    \/ \E t \in TemporalParts \cup ShortTemporalParts, x \in SpatialParts :
          \/ CallParseMediaFragment(TwoPartUri(t, x))
          \/ CallParseMediaFragment(TwoPartUri(x, t))
    \/ \E part \in TemporalParts \cup SpatialParts :
          CallParseMediaFragment(IdC \o <<"#">> \o part)
    \/ \E uri \in PlainUris : CallParseMediaFragment(uri)
    \/ \E source \in Sources, body \in Bodies :
          CallParseAnnotationTarget(StringTarget(TemporalUri(source, <<>>, body)))
    \/ \E source \in SourceForms(IdC), body \in Bodies :
          CallParseAnnotationTarget(
              ObjectTarget("SpecificResource", source,
                           Some(Selector("FragmentSelector", Some(TEquals \o body)))))
    \/ \E type \in ObjectTypes, id \in Sources, selector \in Selectors :
          \E source \in SourceForms(id) :
              CallParseAnnotationTarget(ObjectTarget(type, source, selector))
    \/ \E uri \in PlainUris : CallParseAnnotationTarget(StringTarget(uri))
    \/ CallParseAnnotationTarget(NullTarget)

SpecFragment == Init /\ [][NextFragment]_vars

\* parseVTTCues is entered: cues = [], lines = vttContent.split('\n'),
\* i = 0 (lines are counted from 1 here)
EnterParseVTTCues(vttContent) ==
    /\ call = "none"
    /\ call' = "parseVTTCues"
    /\ arg' = vttContent
    /\ scan' = Some([lines |-> Split(vttContent, "\n"), i |-> 1, cues |-> <<>>])
    /\ UNCHANGED ret

\* the locals after an iteration at a line with '-->'
AfterTimingLine(frame) ==
    [frame EXCEPT !.cues = PushCue(frame.cues, ParseCue(frame.lines, frame.i)),
                  !.i = SkipCueLines(frame.lines, frame.i)]

\* the loop is at a line with '-->': i < lines.length and
\* line.includes('-->')
AtTimingLine ==
    /\ call = "parseVTTCues"
    /\ IsSome(scan)
    /\ Get(scan).i <= Len(Get(scan).lines)
    /\ Includes(Trim(Get(scan).lines[Get(scan).i]), Arrow)

\* an iteration of the while loop at a line with '-->'
ScanTimingLine ==
    /\ AtTimingLine
    /\ scan' = Some(AfterTimingLine(Get(scan)))
    /\ UNCHANGED <<call, arg, ret>>

\* an iteration of the while loop at any other line: i++
ScanOtherLine ==
    /\ call = "parseVTTCues"
    /\ IsSome(scan)
    /\ Get(scan).i <= Len(Get(scan).lines)
    /\ ~Includes(Trim(Get(scan).lines[Get(scan).i]), Arrow)
    /\ scan' = Some([Get(scan) EXCEPT !.i = @ + 1])
    /\ UNCHANGED <<call, arg, ret>>

\* the loop condition i < lines.length fails: return cues
ReturnParseVTTCues ==
    /\ call = "parseVTTCues"
    /\ IsSome(scan)
    /\ Get(scan).i > Len(Get(scan).lines)
    /\ ret' = Get(scan).cues
    /\ scan' = None
    /\ UNCHANGED <<call, arg>>

NextScan ==
    \/ \E lines \in SeqsUpTo(ScanLineChoices, MaxLines) :
          EnterParseVTTCues(Join(lines, <<"\n">>))
    \/ ScanTimingLine
    \/ ScanOtherLine
    \/ ReturnParseVTTCues

\* the loop runs in one thread, so a step that can be taken is taken: weak
\* fairness of each step of the loop.  For ScanTimingLine it is written
\* out, with AtTimingLine, the condition under which the step can be
\* taken, in the place of ENABLED.
SpecScan ==
    /\ Init
    /\ [][NextScan]_vars
    /\ WF_vars(ScanOtherLine \/ ReturnParseVTTCues)
    /\ ([]<>(~AtTimingLine) \/ []<><<ScanTimingLine>>_vars)

-----------------------------------------------------------------------------
(* What the claims about parseRanges speak of, said without the code's     *)
(* traversal: the nodes of a manifest and the leaf a node's chapter is     *)
(* made from.                                                              *)

ItemsOf(range) == IF IsSome(range.items) THEN Get(range.items) ELSE <<>>

ChildRanges(range) ==
    {ItemsOf(range)[i] : i \in {j \in 1..Len(ItemsOf(range)) : ItemsOf(range)[j].type = "Range"}}

RECURSIVE RangesUnder(_)
\* a range node and every range nested in it, at any depth
RangesUnder(range) == {range} \cup UNION {RangesUnder(child) : child \in ChildRanges(range)}

\* every range node of a manifest
AllRanges(manifest) ==
    IF IsSome(manifest.structures)
    THEN UNION {RangesUnder(Get(manifest.structures)[i]) :
                    i \in 1..Len(Get(manifest.structures))}
    ELSE {}

\* positions of the direct Canvas children whose id contains "#t="
TemporalPositions(range) ==
    {i \in 1..Len(ItemsOf(range)) :
        /\ ItemsOf(range)[i].type = "Canvas"
        /\ \E k \in 1..Len(ItemsOf(range)[i].id) : MatchesAt(ItemsOf(range)[i].id, k, TFrag)}

\* the first such child in list order
ChosenLeaf(range) ==
    ItemsOf(range)[CHOOSE i \in TemporalPositions(range) :
                       \A j \in TemporalPositions(range) : i <= j]

\* an identifier with everything from its first '#' stripped
BaseOf(id) == SubSeq(id, 1, RunLen(id, 1, {id[k] : k \in 1..Len(id)} \ {"#"}))

\* the durations that manifest items of exactly this id declare, in order
DeclaredDurations(manifest, id) ==
    IF IsSome(manifest.items)
    THEN SelectSeq(Get(manifest.items), LAMBDA c : c.id = id /\ IsSome(c.duration))
    ELSE <<>>

\* the chapters of a result that carry this id
ChaptersOf(chapters, id) == {k \in 1..Len(chapters) : chapters[k].id = id}

\* the range's chosen leaf is open-ended: a well-formed start and no end
OpenEnded(range) ==
    /\ TemporalPositions(range) # {}
    /\ IsSome(ExtractTemporalFragment(ChosenLeaf(range).id))
    /\ ~IsSome(Get(ExtractTemporalFragment(ChosenLeaf(range).id)).end)

\* the range's chosen leaf carries a well-formed start and end
Closed(range) ==
    /\ TemporalPositions(range) # {}
    /\ IsSome(ExtractTemporalFragment(ChosenLeaf(range).id))
    /\ IsSome(Get(ExtractTemporalFragment(ChosenLeaf(range).id)).end)

\* the range's chosen leaf gives it a chapter
Resolves(manifest, range) ==
    \/ Closed(range)
    \/ /\ OpenEnded(range)
       /\ BaseOf(ChosenLeaf(range).id) # <<>>
       /\ Len(DeclaredDurations(manifest, BaseOf(ChosenLeaf(range).id))) > 0

Returned(fn) == call = fn

-----------------------------------------------------------------------------
(* Claims about parseRanges.                                               *)

\* C1: parseRanges emits at most one chapter per range node; a chapter
\* carries the id of a range node, never of a leaf, and its startTime (and
\* its endTime, when the leaf states an end) are those of the FIRST direct
\* Canvas child of that node whose id contains "#t=" - so a node whose first
\* such child is malformed has no chapter, whatever its later children are.
C1_FirstLeafOnly ==
    Returned("parseRanges") =>
        /\ \A range \in AllRanges(arg) : Cardinality(ChaptersOf(ret, range.id)) <= 1
        /\ \A k \in 1..Len(ret) :
              \E range \in AllRanges(arg) :
                  /\ ret[k].id = range.id
                  /\ TemporalPositions(range) # {}
                  /\ LET timing == ExtractTemporalFragment(ChosenLeaf(range).id)
                     IN  /\ IsSome(timing)
                         /\ ret[k].startTime = Get(timing).start
                         /\ IsSome(Get(timing).end) => ret[k].endTime = Get(Get(timing).end)
        /\ \A k \in 1..Len(ret) : \A range \in AllRanges(arg) :
              \A i \in 1..Len(ItemsOf(range)) :
                  ItemsOf(range)[i].type # "Range" => ret[k].id # ItemsOf(range)[i].id

\* a range whose first temporal child is malformed and whose later temporal
\* child is well-formed, and no chapter for it
C1_Witness ==
    /\ Returned("parseRanges")
    /\ \E range \in AllRanges(arg) :
          /\ Cardinality(TemporalPositions(range)) >= 2
          /\ ~IsSome(ExtractTemporalFragment(ChosenLeaf(range).id))
          /\ \E i \in TemporalPositions(range) :
                IsSome(ExtractTemporalFragment(ItemsOf(range)[i].id))
          /\ ChaptersOf(ret, range.id) = {}

C3_EndAfterStart ==
    Returned("parseRanges") =>
        \A k \in 1..Len(ret) : ret[k].startTime >= 0 /\ ret[k].endTime > ret[k].startTime

\* C4: the list parseRanges returns is sorted by startTime, non-decreasing.
C4_SortedByStartTime ==
    Returned("parseRanges") =>
        \A i \in 1..Len(ret) : \A j \in i..Len(ret) : ret[i].startTime <= ret[j].startTime

\* s is a proper prefix of t
ProperPrefix(s, t) == Len(s) < Len(t) /\ SubSeq(t, 1, Len(s)) = s

\* a nested range's chapter returned before the chapter of the range that
\* contains it, which the traversal met first
C4_Witness ==
    /\ Returned("parseRanges")
    /\ \E i \in 1..Len(ret) : \E j \in (i + 1)..Len(ret) :
          /\ ProperPrefix(ret[j].id, ret[i].id)
          /\ ret[i].startTime < ret[j].startTime

\* C5: parseRanges descends into every Range child of every range node,
\* whether or not the parent gave a chapter: the ids of the returned
\* chapters are exactly the ids of the range nodes, at any depth, whose own
\* chosen leaf resolves.
C5_EveryNestedRange ==
    Returned("parseRanges") =>
        {ret[k].id : k \in 1..Len(ret)}
            = {range.id : range \in {r \in AllRanges(arg) : Resolves(arg, r)}}

\* a range that gives a chapter of its own and holds a nested range that
\* gives one too
C5_Witness ==
    /\ Returned("parseRanges")
    /\ \E parent \in AllRanges(arg) : \E child \in ChildRanges(parent) :
          /\ ChaptersOf(ret, parent.id) # {}
          /\ ChaptersOf(ret, child.id) # {}

-----------------------------------------------------------------------------
(* parseSpeakers: what the claims speak of.                                *)

\* the cues of the document parseSpeakers was called on that begin with a
\* voice tag, in document order
SpeakerCues ==
    IF call = "parseSpeakers"
    THEN SelectSeq(ParseVTTCues(arg), LAMBDA cue : IsSome(cue.speaker))
    ELSE <<>>

\* cue i of the speaker cues continues the segment open after cue i - 1:
\* that segment has the speaker of cue i - 1 and ends where cue i - 1 ends
Continues(cues, i) ==
    /\ i > 1
    /\ cues[i].speaker = cues[i - 1].speaker
    /\ cues[i].startTime = cues[i - 1].endTime

\* the cues that open a segment
Openers(cues) == {i \in 1..Len(cues) : ~Continues(cues, i)}

\* the last cue of the segment opened by cue i
LastOf(cues, i) ==
    CHOOSE j \in i..Len(cues) :
        /\ \A k \in (i + 1)..j : Continues(cues, k)
        /\ j = Len(cues) \/ ~Continues(cues, j + 1)

\* the k-th of the openers
Opener(openers, k) ==
    CHOOSE i \in openers : Cardinality({j \in openers : j <= i}) = k

\* the segment opened by cue i
SegmentFrom(cues, i) ==
    [speaker   |-> Get(cues[i].speaker),
     startTime |-> cues[i].startTime,
     endTime   |-> cues[LastOf(cues, i)].endTime]

\* the segments the merge rule gives, in document order
MergedSegments(cues) ==
    [k \in 1..Cardinality(Openers(cues)) |-> SegmentFrom(cues, Opener(Openers(cues), k))]

Count(list, x) == Cardinality({i \in DOMAIN list : list[i] = x})

\* the two lists hold the same elements the same number of times
SameElements(s, t) ==
    /\ Len(s) = Len(t)
    /\ \A i \in DOMAIN s : Count(s, s[i]) = Count(t, s[i])

\* the text begins with "<v" or "<V" and white space
TagLed(text) ==
    /\ Len(text) >= 3
    /\ text[1] = "<"
    /\ text[2] \in {"v", "V"}
    /\ text[3] \in WhiteSpace

\* the segment starts where a cue led by a voice tag starts and ends where
\* one ends
BoundedByTagLed(segment, cues) ==
    /\ \E j \in DOMAIN cues :
          TagLed(cues[j].text) /\ cues[j].startTime = segment.startTime
    /\ \E j \in DOMAIN cues :
          TagLed(cues[j].text) /\ cues[j].endTime = segment.endTime

\* every line with an arrow matches the timing pattern
TimingLinesMatch(lines) ==
    \A k \in DOMAIN lines :
        Includes(Trim(lines[k]), Arrow) => IsSome(TimingMatch(lines[k]))

\* three speaker cues: the second is merged into the first's segment, the
\* third has the same speaker but does not start at that segment's end
MergeThenGap(cues) ==
    /\ Len(cues) = 3
    /\ Continues(cues, 2)
    /\ cues[3].speaker = cues[2].speaker
    /\ cues[3].startTime # cues[2].endTime

\* two speaker cues of one speaker, the second ending where the first
\* starts: in time order they would merge, in document order they do not
ReversedPair(cues) ==
    /\ Len(cues) = 2
    /\ cues[2].speaker = cues[1].speaker
    /\ cues[2].endTime = cues[1].startTime
    /\ cues[2].startTime < cues[1].startTime

\* C6: parseSpeakers merges a speaker cue into the open segment, moving only
\* its end, exactly when the cue has the open segment's speaker and starts
\* where it ends; every other cue closes the segment and opens a new one.
\* So the result holds exactly the segments of the maximal runs of such cues.
C6_MergeIffSameSpeakerAndContiguous ==
    Returned("parseSpeakers") => SameElements(ret, MergedSegments(SpeakerCues))

\* a document where one cue is merged and the next, of the same speaker
\* but not starting at the open segment's end, opens a second segment
C6_Witness ==
    /\ Returned("parseSpeakers")
    /\ MergeThenGap(SpeakerCues)
    /\ Len(ret) = 2

\* C7: every segment parseSpeakers returns has a non-empty speaker without
\* leading or trailing white space, and its boundaries come from cues
\* whose text begins with a voice tag.
C7_SpeakerNonEmptyTrimmed ==
    Returned("parseSpeakers") =>
        \A i \in DOMAIN ret :
            /\ ret[i].speaker # <<>>
            /\ ret[i].speaker[1] \notin WhiteSpace
            /\ ret[i].speaker[Len(ret[i].speaker)] \notin WhiteSpace
            /\ BoundedByTagLed(ret[i], ParseVTTCues(arg))

\* C8: every segment parseSpeakers returns for a document whose timing
\* lines match the timestamp pattern ends no earlier than it starts.
C8_EndNotBeforeStart ==
    Returned("parseSpeakers") /\ TimingLinesMatch(Split(arg, "\n")) =>
        \A i \in DOMAIN ret : ret[i].endTime >= ret[i].startTime

\* C9: parseSpeakers returns the segments by non-decreasing startTime, and
\* they are the segments merged in document order: sorting comes last.
C9_SegmentsSortedAfterMerging ==
    Returned("parseSpeakers") =>
        /\ \A i, j \in DOMAIN ret : i < j => ret[i].startTime <= ret[j].startTime
        /\ SameElements(ret, MergedSegments(SpeakerCues))

\* a document whose second cue, of the same speaker, ends where the first
\* starts, returned as two segments with the second cue's first
C9_Witness ==
    /\ Returned("parseSpeakers")
    /\ ReversedPair(SpeakerCues)
    /\ Len(ret) = 2
    /\ ret[1].endTime = ret[2].startTime

-----------------------------------------------------------------------------
(* Claims about the fragment parsers.                                      *)

\* the temporal descriptor in what parseMediaFragment or
\* parseAnnotationTarget returned, None when there is none
ReturnedTemporal ==
    IF call = "parseMediaFragment" THEN ret.temporal
    ELSE IF call = "parseAnnotationTarget" /\ IsSome(ret) THEN Get(ret).temporal
    ELSE None

\* C10: every temporal descriptor that parseMediaFragment or
\* parseAnnotationTarget returns has start >= 0 and, when it has an end,
\* end >= 0 and end > start.
C10_TemporalWellOrdered ==
    IsSome(ReturnedTemporal) =>
        /\ Get(ReturnedTemporal).start >= 0
        /\ IsSome(Get(ReturnedTemporal).end) =>
              /\ Get(Get(ReturnedTemporal).end) >= 0
              /\ Get(Get(ReturnedTemporal).end) > Get(ReturnedTemporal).start

\* parseAnnotationTarget returned, for a selector value, a descriptor with
\* a positive start and an end
C10_Witness ==
    /\ call = "parseAnnotationTarget"
    /\ arg.kind = "object"
    /\ IsSome(ReturnedTemporal)
    /\ Get(ReturnedTemporal).start > 0
    /\ IsSome(Get(ReturnedTemporal).end)

-----------------------------------------------------------------------------
(* The fragment parsers: what the claims speak of, read off the input.     *)

\* the text after the first occurrence of mark, which text includes
TextAfter(text, mark) == SubSeq(text, IndexOf(text, mark) + Len(mark), Len(text))

\* the text before the first occurrence of mark, all of it without one
TextBefore(text, mark) ==
    IF Includes(text, mark) THEN SubSeq(text, 1, IndexOf(text, mark) - 1) ELSE text

\* what is written after "t=", rest being the text that follows it: the
\* run of [0-9.] written as start, the run written as end after a comma
\* (empty without comma), and whether a minus sign comes first
TimesWrittenIn(rest, n) ==
    [start |-> SubSeq(rest, 1, n),
     end   |-> IF n < Len(rest) /\ rest[n + 1] = ","
               THEN SubSeq(rest, n + 2, n + 1 + RunLen(rest, n + 2, NumChars))
               ELSE <<>>,
     minus |-> rest # <<>> /\ rest[1] = "-"]

WrittenTimesAfter(rest) == TimesWrittenIn(rest, RunLen(rest, 1, NumChars))

\* the times written in a fragment that includes "t="
WrittenTimes(fragment) == WrittenTimesAfter(TextAfter(fragment, TEquals))

\* v is a run of [0-9.] that reads as a number
Numeral(v) ==
    /\ v # <<>>
    /\ \A k \in DOMAIN v : v[k] \in NumChars
    /\ IsSome(ParseFloat(v))

\* what is written after "xywh=" up to the next '&', rest being that text:
\* the unit its prefix names and the values between its commas
SpatialWrittenIn(rest) ==
    IF MatchesAt(rest, 1, PercentPrefix)
    THEN [unit |-> "percent",
          values |-> Split(SubSeq(rest, Len(PercentPrefix) + 1, Len(rest)), ",")]
    ELSE IF MatchesAt(rest, 1, PixelPrefix)
    THEN [unit |-> "pixel",
          values |-> Split(SubSeq(rest, Len(PixelPrefix) + 1, Len(rest)), ",")]
    ELSE [unit |-> "pixel", values |-> Split(rest, ",")]

\* the spatial part written in a fragment that includes "xywh="
WrittenSpatial(fragment) ==
    SpatialWrittenIn(TextBefore(TextAfter(fragment, Xywh), <<"&">>))

\* four values, each a numeral
FourNumerals(values) == Len(values) = 4 /\ \A k \in 1..4 : Numeral(values[k])

\* the percent rule: every value at most 100, x + width and y + height too
WithinPercent(x, y, width, height) ==
    /\ x <= 100 * Scale /\ y <= 100 * Scale
    /\ width <= 100 * Scale /\ height <= 100 * Scale
    /\ x + width <= 100 * Scale
    /\ y + height <= 100 * Scale

\* the written spatial part is one the grammar accepts
SpatialValid(written) ==
    /\ FourNumerals(written.values)
    /\ written.unit = "percent" =>
          WithinPercent(Get(ParseFloat(written.values[1])),
                        Get(ParseFloat(written.values[2])),
                        Get(ParseFloat(written.values[3])),
                        Get(ParseFloat(written.values[4])))

\* the descriptor of a valid written spatial part
SpatialAsWritten(written) ==
    [x      |-> Get(ParseFloat(written.values[1])),
     y      |-> Get(ParseFloat(written.values[2])),
     width  |-> Get(ParseFloat(written.values[3])),
     height |-> Get(ParseFloat(written.values[4])),
     unit   |-> written.unit]

\* parseMediaFragment returned for a URI with a fragment that includes mark
FragmentWith(mark) ==
    /\ call = "parseMediaFragment"
    /\ Includes(arg, <<"#">>)
    /\ Includes(TextAfter(arg, <<"#">>), mark)

\* the times are both written, both numbers, and the end is not after the
\* start
EndNotAfterStart(times) ==
    /\ Numeral(times.start)
    /\ Numeral(times.end)
    /\ Get(ParseFloat(times.end)) <= Get(ParseFloat(times.start))

\* a valid spatial part written in the fragment is what was returned
ValidSpatialReturned(fragment, spatial) ==
    Includes(fragment, Xywh) /\ SpatialValid(WrittenSpatial(fragment))
        => spatial = Some(SpatialAsWritten(WrittenSpatial(fragment)))

\* C11: when the fragment writes 't=S,E' with both runs numbers and E <= S,
\* parseMediaFragment returns no temporal result, not the start alone,
\* and still returns the source and a valid spatial part of the fragment.
C11_UnorderedTimesDropTemporal ==
    FragmentWith(TEquals) /\ EndNotAfterStart(WrittenTimes(TextAfter(arg, <<"#">>)))
        => /\ ret.temporal = None
           /\ ret.source = TextBefore(arg, <<"#">>)
           /\ ValidSpatialReturned(TextAfter(arg, <<"#">>), ret.spatial)

\* a fragment with E < S and a valid spatial part: no temporal result, the
\* spatial one returned
C11_Witness ==
    /\ FragmentWith(TEquals)
    /\ EndNotAfterStart(WrittenTimes(TextAfter(arg, <<"#">>)))
    /\ FragmentWith(Xywh)
    /\ ret.temporal = None
    /\ IsSome(ret.spatial)
    /\ ret.source = IdC

\* nothing is written as start and a number above 0 as end
OnlyEndWritten(times) ==
    /\ times.start = <<>>
    /\ Numeral(times.end)
    /\ Get(ParseFloat(times.end)) > 0

\* C12: a fragment 't=,E' with E > 0 gives {start: 0, end: E}; a fragment
\* whose start and end runs are both empty gives no temporal result, so an
\* empty start is read as 0 only when an end run is written.
C12_EmptyStartNeedsEnd ==
    FragmentWith(TEquals) =>
        /\ OnlyEndWritten(WrittenTimes(TextAfter(arg, <<"#">>))) =>
              ret.temporal =
                  Some([start |-> 0,
                        end   |-> ParseFloat(WrittenTimes(TextAfter(arg, <<"#">>)).end)])
        /\ (/\ WrittenTimes(TextAfter(arg, <<"#">>)).start = <<>>
            /\ WrittenTimes(TextAfter(arg, <<"#">>)).end = <<>>) =>
              ret.temporal = None
        /\ (/\ WrittenTimes(TextAfter(arg, <<"#">>)).start = <<>>
            /\ IsSome(ret.temporal)) =>
              WrittenTimes(TextAfter(arg, <<"#">>)).end # <<>>

\* 't=,E' with E > 0 returned from start 0
C12_Witness ==
    /\ FragmentWith(TEquals)
    /\ OnlyEndWritten(WrittenTimes(TextAfter(arg, <<"#">>)))
    /\ IsSome(ret.temporal)
    /\ Get(ret.temporal).start = 0
    /\ IsSome(Get(ret.temporal).end)

\* a minus sign, then the numbers S and E around a comma
SignedStartWritten(rest) ==
    /\ rest # <<>>
    /\ rest[1] = "-"
    /\ Numeral(WrittenTimesAfter(Tail(rest)).start)
    /\ Numeral(WrittenTimesAfter(Tail(rest)).end)

\* C13: a fragment whose "t=" is followed by a minus sign gives no temporal
\* result, whatever is written after the sign.
C13_SignedStartRejected ==
    FragmentWith(TEquals) /\ WrittenTimes(TextAfter(arg, <<"#">>)).minus
        => ret.temporal = None

\* 't=-S,E' with numbers S < E, and no temporal result
C13_Witness ==
    /\ FragmentWith(TEquals)
    /\ SignedStartWritten(TextAfter(TextAfter(arg, <<"#">>), TEquals))
    /\ ret.temporal = None

\* a descriptor within the percent rule, no value below 0
PercentDescriptor(d) ==
    /\ d.x >= 0 /\ d.y >= 0 /\ d.width >= 0 /\ d.height >= 0
    /\ WithinPercent(d.x, d.y, d.width, d.height)

\* four numerals written with 'percent:' that break the percent rule
PercentViolated(written) ==
    /\ written.unit = "percent"
    /\ FourNumerals(written.values)
    /\ ~SpatialValid(written)

\* four numerals written without 'percent:'
PixelWritten(written) == written.unit = "pixel" /\ FourNumerals(written.values)

\* C14: a returned percent descriptor has x, y, width and height in [0, 100]
\* with x + width <= 100 and y + height <= 100; a percent fragment that
\* breaks one of these gives no spatial result, neither clamped nor read as
\* pixels; pixel values are returned whatever their size.
C14_PercentWithinCanvas ==
    call = "parseMediaFragment" =>
        /\ IsSome(ret.spatial) /\ Get(ret.spatial).unit = "percent"
              => PercentDescriptor(Get(ret.spatial))
        /\ FragmentWith(Xywh) /\ PercentViolated(WrittenSpatial(TextAfter(arg, <<"#">>)))
              => ret.spatial = None
        /\ FragmentWith(Xywh) /\ PixelWritten(WrittenSpatial(TextAfter(arg, <<"#">>)))
              => ret.spatial =
                    Some(SpatialAsWritten(WrittenSpatial(TextAfter(arg, <<"#">>))))

\* the sum of two written values, each a numeral
SumOf(values, j, k) == Get(ParseFloat(values[j])) + Get(ParseFloat(values[k]))

\* a percent fragment with every value at most 100 and x + width above 100:
\* no spatial result
C14_Witness ==
    /\ FragmentWith(Xywh)
    /\ PercentViolated(WrittenSpatial(TextAfter(arg, <<"#">>)))
    /\ \A k \in 1..4 :
          Get(ParseFloat(WrittenSpatial(TextAfter(arg, <<"#">>)).values[k])) <= 100 * Scale
    /\ SumOf(WrittenSpatial(TextAfter(arg, <<"#">>)).values, 1, 3) > 100 * Scale
    /\ ret.spatial = None

\* the text after "xywh=" starts with neither unit prefix
NoUnitPrefix(fragment) ==
    /\ ~MatchesAt(TextAfter(fragment, Xywh), 1, PixelPrefix)
    /\ ~MatchesAt(TextAfter(fragment, Xywh), 1, PercentPrefix)

\* C15: parseMediaFragment returns a spatial descriptor only for a fragment
\* with 'xywh=', an optional 'pixel:' or 'percent:' and four comma-separated
\* numerals; with fewer than four values or one that is no number it
\* returns none; without prefix or with 'pixel:' the unit is 'pixel'.
C15_SpatialNeedsFourNumbers ==
    call = "parseMediaFragment" =>
        /\ IsSome(ret.spatial) =>
              /\ FragmentWith(Xywh)
              /\ FourNumerals(WrittenSpatial(TextAfter(arg, <<"#">>)).values)
              /\ Get(ret.spatial).unit = WrittenSpatial(TextAfter(arg, <<"#">>)).unit
              /\ Get(ret.spatial).unit = "percent"
                    <=> MatchesAt(TextAfter(TextAfter(arg, <<"#">>), Xywh), 1, PercentPrefix)
        /\ FragmentWith(Xywh) /\ ~FourNumerals(WrittenSpatial(TextAfter(arg, <<"#">>)).values)
              => ret.spatial = None

\* four numerals written without a unit prefix, returned as pixels
C15_Witness ==
    /\ FragmentWith(Xywh)
    /\ NoUnitPrefix(TextAfter(arg, <<"#">>))
    /\ FourNumerals(WrittenSpatial(TextAfter(arg, <<"#">>)).values)
    /\ IsSome(ret.spatial)
    /\ Get(ret.spatial).unit = "pixel"

\* the fragment is two parts around '&', one beginning with "t=" and the
\* other with "xywh="
TwoParts(fragment) ==
    /\ Includes(fragment, <<"&">>)
    /\ \/ /\ MatchesAt(TextBefore(fragment, <<"&">>), 1, TEquals)
          /\ MatchesAt(TextAfter(fragment, <<"&">>), 1, Xywh)
       \/ /\ MatchesAt(TextBefore(fragment, <<"&">>), 1, Xywh)
          /\ MatchesAt(TextAfter(fragment, <<"&">>), 1, TEquals)

\* the part of a two-part fragment that begins with mark
PartWith(fragment, mark) ==
    IF MatchesAt(fragment, 1, mark)
    THEN TextBefore(fragment, <<"&">>)
    ELSE TextAfter(fragment, <<"&">>)

\* the two parts in the other order
Swapped(fragment) ==
    TextAfter(fragment, <<"&">>) \o <<"&">> \o TextBefore(fragment, <<"&">>)

\* the result for source and fragment agrees with the results for the
\* temporal part alone, for the spatial part alone and for the parts swapped
AgreesWithParts(result, source, fragment) ==
    /\ result.temporal =
          ParseMediaFragment(source \o <<"#">> \o PartWith(fragment, TEquals)).temporal
    /\ result.spatial =
          ParseMediaFragment(source \o <<"#">> \o PartWith(fragment, Xywh)).spatial
    /\ result = ParseMediaFragment(source \o <<"#">> \o Swapped(fragment))

\* C16: for a fragment of a temporal part T and a spatial part X joined by
\* '&', parseMediaFragment returns the same temporal and spatial results in
\* either order, each the result of the fragment with that part alone, so
\* an invalid part does not suppress the other.
C16_PartsIndependentOfOrder ==
    FragmentWith(<<"&">>) /\ TwoParts(TextAfter(arg, <<"#">>))
        => AgreesWithParts(ret, TextBefore(arg, <<"#">>), TextAfter(arg, <<"#">>))

\* the spatial part written first, a temporal and a spatial result returned
C16_Witness ==
    /\ FragmentWith(<<"&">>)
    /\ TwoParts(TextAfter(arg, <<"#">>))
    /\ MatchesAt(TextAfter(arg, <<"#">>), 1, Xywh)
    /\ IsSome(ret.temporal)
    /\ IsSome(ret.spatial)

(* parseAnnotationTarget: what the claims speak of, read off the target.   *)

\* parseAnnotationTarget returned for a SpecificResource
SpecificResourceParsed ==
    /\ call = "parseAnnotationTarget"
    /\ arg.kind = "object"
    /\ arg.type = "SpecificResource"

\* the source a SpecificResource names, as a string or as the id of an object
SourceNamed(target) ==
    IF target.source.isObject THEN target.source.id ELSE target.source.string

\* the selector is a FragmentSelector with a value
HasFragmentValue(target) ==
    /\ IsSome(target.selector)
    /\ Get(target.selector).type = "FragmentSelector"
    /\ IsSome(Get(target.selector).value)

\* the value of the selector
ValueOf(target) == Get(Get(target.selector).value)

\* C17: for a SpecificResource with source S (or {id: S}), S without '#',
\* and a FragmentSelector with value F, parseAnnotationTarget returns the
\* source, temporal and spatial results it returns for the string S#F.
C17_SpecificResourceAsString ==
    /\ SpecificResourceParsed
    /\ HasFragmentValue(arg)
    /\ ~Includes(SourceNamed(arg), <<"#">>)
    => ret = ParseAnnotationTarget(
                 StringTarget(SourceNamed(arg) \o <<"#">> \o ValueOf(arg)))

\* a source given as {id: S} and a selector value with a temporal part:
\* the source S and the times returned
C17_Witness ==
    /\ SpecificResourceParsed
    /\ HasFragmentValue(arg)
    /\ arg.source.isObject
    /\ IsSome(ret)
    /\ Get(ret).source = IdC
    /\ IsSome(Get(ret).temporal)

\* C18: for a SpecificResource, parseAnnotationTarget returns a record
\* whose source is the source string or the source object's id; it carries
\* a temporal or spatial result only when the selector's type is
\* 'FragmentSelector' and its value is a non-empty string.
C18_OnlyFragmentSelectorAttaches ==
    SpecificResourceParsed =>
        /\ IsSome(ret)
        /\ Get(ret).source = SourceNamed(arg)
        /\ ~(HasFragmentValue(arg) /\ ValueOf(arg) # <<>>) =>
              /\ Get(ret).temporal = None
              /\ Get(ret).spatial = None

\* a PointSelector whose value reads as a temporal fragment: source only
C18_Witness ==
    /\ SpecificResourceParsed
    /\ IsSome(arg.selector)
    /\ Get(arg.selector).type = "PointSelector"
    /\ Get(arg.selector).value = Some(TEquals \o <<"1", ",", "2">>)
    /\ ret = Some([source |-> SourceNamed(arg), temporal |-> None, spatial |-> None])

\* the target is falsy: null, undefined or the empty string
Falsy(target) ==
    target.kind = "null" \/ (target.kind = "string" /\ target.value = <<>>)

\* C19: parseAnnotationTarget returns null exactly when the target is falsy
\* or an object whose type is not 'SpecificResource' (an object without type
\* too); a non-empty string gives a record, with the empty source when the
\* string begins with '#'.
C19_NullExactlyWhen ==
    call = "parseAnnotationTarget" =>
        /\ ret = None <=>
              \/ Falsy(arg)
              \/ arg.kind = "object" /\ arg.type # "SpecificResource"
        /\ (/\ arg.kind = "string"
            /\ arg.value # <<>>
            /\ arg.value[1] = "#") =>
              /\ IsSome(ret)
              /\ Get(ret).source = <<>>

\* an object without type, with a source and a FragmentSelector: null
C19_Witness ==
    /\ call = "parseAnnotationTarget"
    /\ arg.kind = "object"
    /\ arg.type = ""
    /\ HasFragmentValue(arg)
    /\ ret = None

\* C20: parseMediaFragment returns a record for every string: without '#'
\* the source is the whole input and nothing else is returned; otherwise
\* the source is the text before the first '#', the results are those of
\* the text after that '#', and the source never contains '#'.
C20_SplitAtFirstHash ==
    call = "parseMediaFragment" =>
        /\ DOMAIN ret = {"source", "temporal", "spatial"}
        /\ ~Includes(ret.source, <<"#">>)
        /\ IF ~Includes(arg, <<"#">>)
           THEN ret = [source |-> arg, temporal |-> None, spatial |-> None]
           ELSE /\ ret.source = TextBefore(arg, <<"#">>)
                /\ ret.temporal = ParseTemporalFromFragment(TextAfter(arg, <<"#">>))
                /\ ret.spatial = ParseSpatialFromFragment(TextAfter(arg, <<"#">>))

\* an input with a second '#': the source ends at the first one and the
\* times written after the second are returned
C20_Witness ==
    /\ call = "parseMediaFragment"
    /\ Includes(arg, <<"#">>)
    /\ Includes(TextAfter(arg, <<"#">>), <<"#">>)
    /\ ret.source = IdC
    /\ IsSome(ret.temporal)

-----------------------------------------------------------------------------
(* Further claims about parseRanges.                                       *)

\* the entries of a language map whose first value is a non-empty string
Labelled(entries) ==
    {i \in 1..Len(entries) : Len(entries[i].values) > 0 /\ entries[i].values[1] # ""}

\* the label the order of preference picks: 'en', else the first language
\* with a non-empty first value, else the placeholder
PreferredLabel(labelMap) ==
    IF ~IsSome(labelMap) \/ Labelled(Get(labelMap)) = {}
    THEN "Untitled Chapter"
    ELSE IF \E i \in Labelled(Get(labelMap)) : Get(labelMap)[i].lang = "en"
    THEN Get(labelMap)[CHOOSE i \in Labelled(Get(labelMap)) :
                           Get(labelMap)[i].lang = "en"].values[1]
    ELSE Get(labelMap)[CHOOSE i \in Labelled(Get(labelMap)) :
                           \A j \in Labelled(Get(labelMap)) : i <= j].values[1]

NoStructures(manifest) ==
    ~IsSome(manifest.structures) \/ Get(manifest.structures) = <<>>

\* C22: parseRanges returns the empty list, and raises nothing, for a
\* manifest without structures or with an empty structures list, whatever
\* its items are.
C22_NoStructuresNoChapters ==
    Returned("parseRanges") /\ NoStructures(arg) => ret = <<>>

\* structures missing beside an item that declares a duration: no chapter
C22_Witness ==
    /\ Returned("parseRanges")
    /\ ~IsSome(arg.structures)
    /\ IsSome(arg.items)
    /\ \E i \in 1..Len(Get(arg.items)) : IsSome(Get(arg.items)[i].duration)
    /\ ret = <<>>

-----------------------------------------------------------------------------
(* Further claims about parseSpeakers.                                     *)

\* line k is a candidate timing line that does not parse
Malformed(lines, k) ==
    Includes(Trim(lines[k]), Arrow) /\ ~IsSome(TimingMatch(lines[k]))

\* line j belongs to a malformed cue: it is such a timing line or one of
\* the payload lines after it, up to the next blank or timing line
InMalformedCue(lines, j) ==
    \E k \in 1..j :
        /\ Malformed(lines, k)
        /\ \A m \in (k + 1)..j : ~EndsCue(Trim(lines[m]))

\* the lines of a joined list of numbered lines
LinesOf(numbered) == [j \in 1..Len(numbered) |-> numbered[j].line]

\* the lines that are left when the malformed cues are taken out
KeptLines(lines) ==
    LinesOf(SelectSeq([j \in 1..Len(lines) |-> [at |-> j, line |-> lines[j]]],
                      LAMBDA e : ~InMalformedCue(lines, e.at)))

\* the segment begins at a timing line that parses and whose payload
\* begins with a voice tag
FromValidCue(segment, lines) ==
    \E k \in 1..Len(lines) :
        /\ IsSome(TimingMatch(lines[k]))
        /\ Get(ParseCueTiming(lines[k])).startTime = segment.startTime
        /\ TagLed(Join(CollectCueText(lines, k + 1), <<" ">>))

\* the segments are those of the document without its malformed cues, and
\* each begins at a valid cue
MalformedDropped(segments, lines) ==
    /\ segments = ParseSpeakers(Join(KeptLines(lines), <<"\n">>))
    /\ \A s \in 1..Len(segments) : FromValidCue(segments[s], lines)

\* C23: a candidate timing line that does not parse drops that cue alone:
\* its payload gives no segment and the segments of the document are those
\* of the document without the malformed cue; a segment always begins at a
\* timing line that parses.
C23_MalformedCueDropped ==
    Returned("parseSpeakers") => MalformedDropped(ret, Split(arg, "\n"))

\* a malformed timing line with a voiced payload line lies before line k
MalformedBefore(lines, k) ==
    \E m \in 1..(k - 2) : Malformed(lines, m) /\ TagLed(lines[m + 1])

\* a malformed cue with a voiced payload, then a valid cue: one segment
MalformedThenValid(segments, lines) ==
    /\ Len(segments) = 1
    /\ \E k \in 1..Len(lines) :
          /\ IsSome(TimingMatch(lines[k]))
          /\ MalformedBefore(lines, k)

C23_Witness ==
    Returned("parseSpeakers") /\ MalformedThenValid(ret, Split(arg, "\n"))

-----------------------------------------------------------------------------
(* Claims about the range resolver and the fragment parser together.       *)

\* the ids of the Canvas children of the range nodes of a manifest
CanvasChildIds(manifest) ==
    UNION { {ItemsOf(range)[i].id :
                i \in {j \in 1..Len(ItemsOf(range)) : ItemsOf(range)[j].type = "Canvas"}} :
            range \in AllRanges(manifest) }

\* a timing of the range resolver and a temporal result of the fragment
\* parser are both absent, or both present with the same start and end
SameTiming(timing, temporal) ==
    /\ IsSome(timing) <=> IsSome(temporal)
    /\ IsSome(timing) /\ IsSome(temporal) =>
          /\ Get(timing).start = Get(temporal).start
          /\ Get(timing).end = Get(temporal).end

\* C24: for every Canvas child id 'base#body' of a range node, the range
\* resolver obtains a timing exactly when parseMediaFragment returns a
\* temporal result for that id, and then with the same start and the same
\* end or absence of end.
C24_OneTemporalRule ==
    Returned("parseRanges") =>
        \A id \in CanvasChildIds(arg) :
            Includes(id, <<"#">>) =>
                SameTiming(ExtractTemporalFragment(id), ParseMediaFragment(id).temporal)

-----------------------------------------------------------------------------
(* Further claims about the fragment parsers.                              *)

\* rest, the text after "t=", writes a number, a comma and a minus sign;
\* n is the length of the run of [0-9.] it begins with
SignedEndAfter(rest, n) ==
    /\ Numeral(SubSeq(rest, 1, n))
    /\ n + 2 <= Len(rest)
    /\ rest[n + 1] = ","
    /\ rest[n + 2] = "-"

\* the fragment writes 't=S,-...' with a number S
SignedEndWritten(fragment) ==
    SignedEndAfter(TextAfter(fragment, TEquals),
                   RunLen(TextAfter(fragment, TEquals), 1, NumChars))

-----------------------------------------------------------------------------
(* Claims about the order and the isolation of chapters.                   *)

\* the ids of enumerated range nodes are their paths of positions, so the
\* traversal meets id a before id b when a is a proper prefix of b (a range
\* before its nested ranges) or a has the smaller position where they first
\* differ (an earlier sibling, or a range under one, before a later one)
MetBefore(a, b) ==
    \/ ProperPrefix(a, b)
    \/ \E k \in 2..Len(a) :
          /\ k <= Len(b)
          /\ SubSeq(a, 1, k - 1) = SubSeq(b, 1, k - 1)
          /\ DigitVal(a[k]) < DigitVal(b[k])

\* C26: of two chapters with equal startTime, parseRanges returns first the
\* one whose range the depth-first traversal meets first: a range's own
\* chapter before those of its nested ranges, an earlier sibling's chapters
\* before a later sibling's.
C26_TiesInTraversalOrder ==
    Returned("parseRanges") =>
        \A i \in 1..Len(ret) : \A j \in (i + 1)..Len(ret) :
            ret[i].startTime = ret[j].startTime => MetBefore(ret[i].id, ret[j].id)

\* two chapters with one startTime, of a range and of a range nested in it
C26_Witness ==
    /\ Returned("parseRanges")
    /\ \E i \in 1..Len(ret) : \E j \in (i + 1)..Len(ret) :
          /\ ret[i].startTime = ret[j].startTime
          /\ ProperPrefix(ret[i].id, ret[j].id)

\* a list of items with their positions
Numbered(items) == [i \in 1..Len(items) |-> [at |-> i, item |-> items[i]]]

\* the position of the chosen leaf of a range that has one
ChosenPosition(range) ==
    CHOOSE i \in TemporalPositions(range) : \A j \in TemporalPositions(range) : i <= j

RECURSIVE WithoutChosenLeaf(_, _)
\* the range with the chosen leaf of its node called id taken out
WithoutChosenLeaf(range, id) ==
    IF ~IsSome(range.items) THEN range
    ELSE LET kept == SelectSeq(Numbered(Get(range.items)),
                         LAMBDA e : range.id # id \/ e.at # ChosenPosition(range))
         IN  [range EXCEPT !.items =
                 Some([i \in 1..Len(kept) |->
                          IF kept[i].item.type = "Range"
                          THEN WithoutChosenLeaf(kept[i].item, id)
                          ELSE kept[i].item])]

\* the manifest with the chosen leaf of the range called id taken out
ManifestWithoutChosenLeaf(manifest, id) ==
    [manifest EXCEPT !.structures =
        Some([i \in 1..Len(Get(manifest.structures)) |->
                 WithoutChosenLeaf(Get(manifest.structures)[i], id)])]

\* the chapters of the ranges other than the one called id
ChaptersOfOthers(chapters, id) == SelectSeq(chapters, LAMBDA c : c.id # id)

\* the range's chosen leaf is malformed or cannot be resolved
Offending(manifest, range) ==
    TemporalPositions(range) # {} /\ ~Resolves(manifest, range)

\* C27: a range whose chosen leaf is malformed or cannot be resolved gives
\* no chapter and raises nothing, and the chapters of all other ranges, its
\* siblings and its nested ranges among them, are those parseRanges returns
\* for the manifest without that leaf reference.
C27_SkipIsIsolated ==
    Returned("parseRanges") =>
        \A range \in AllRanges(arg) :
            Offending(arg, range) =>
                /\ ChaptersOf(ret, range.id) = {}
                /\ ChaptersOfOthers(ret, range.id)
                      = ChaptersOfOthers(ParseRanges(ManifestWithoutChosenLeaf(arg, range.id)),
                                         range.id)

\* a range with an offending leaf, and a chapter from a range nested in it
C27_Witness ==
    /\ Returned("parseRanges")
    /\ \E range \in AllRanges(arg) : \E child \in ChildRanges(range) :
          /\ Offending(arg, range)
          /\ ChaptersOf(ret, range.id) = {}
          /\ ChaptersOf(ret, child.id) # {}

\* line k is a timing line that parses and whose payload does not begin
\* with a voice tag
Speakerless(lines, k) ==
    /\ Includes(Trim(lines[k]), Arrow)
    /\ IsSome(ParseCue(lines, k))
    /\ ~IsSome(Get(ParseCue(lines, k)).speaker)

\* line j belongs to a speakerless cue: its timing line or its payload
InSpeakerlessCue(lines, j) ==
    \E k \in 1..j :
        /\ Speakerless(lines, k)
        /\ \A m \in (k + 1)..j : ~EndsCue(Trim(lines[m]))

\* the lines that are left when the speakerless cues are deleted
SpeakerLines(lines) ==
    LinesOf(SelectSeq([j \in 1..Len(lines) |-> [at |-> j, line |-> lines[j]]],
                      LAMBDA e : ~InSpeakerlessCue(lines, e.at)))

\* three cues: one speaker first and last, no speaker in between
SpeakerlessBetween(cues) ==
    /\ Len(cues) = 3
    /\ IsSome(cues[1].speaker)
    /\ ~IsSome(cues[2].speaker)
    /\ cues[3].speaker = cues[1].speaker

\* the first and the last of such three cues are merged exactly when the
\* last starts at the end of the first
MergedAcross(segments, cues) ==
    IF cues[3].startTime = cues[1].endTime
    THEN segments = <<[speaker   |-> Get(cues[1].speaker),
                       startTime |-> cues[1].startTime,
                       endTime   |-> cues[3].endTime]>>
    ELSE Len(segments) = 2

\* the segments are those of the document without its speakerless cues,
\* and a speakerless cue between two cues of one speaker decides nothing
SpeakerlessIgnored(segments, lines, cues) ==
    /\ segments = ParseSpeakers(Join(SpeakerLines(lines), <<"\n">>))
    /\ SpeakerlessBetween(cues) => MergedAcross(segments, cues)

\* C28: parseSpeakers removes the cues without speaker before it merges:
\* the result is that of the document with every speakerless cue deleted,
\* and two cues of one speaker with a speakerless cue between them are
\* merged exactly when the second starts at the end of the first.
C28_SpeakerlessRemovedFirst ==
    Returned("parseSpeakers") =>
        SpeakerlessIgnored(ret, Split(arg, "\n"), ParseVTTCues(arg))

\* the two cues merged across the speakerless one
MergedOverSpeakerless(segments, cues) ==
    /\ SpeakerlessBetween(cues)
    /\ cues[3].startTime = cues[1].endTime
    /\ Len(segments) = 1

\* a speakerless cue between two cues of one speaker that touch: one
\* segment
C28_Witness ==
    Returned("parseSpeakers") /\ MergedOverSpeakerless(ret, ParseVTTCues(arg))

\* C29: the list parseSpeakers returns is maximally merged: no two adjacent
\* segments of it have the same speaker with the later one starting where
\* the earlier one ends, in whatever order the cues stand in the document.
C29_MaximallyMerged ==
    Returned("parseSpeakers") =>
        \A i \in 1..(Len(ret) - 1) :
            ~(/\ ret[i].speaker = ret[i + 1].speaker
              /\ ret[i + 1].startTime = ret[i].endTime)

-----------------------------------------------------------------------------
(* The scan loop of parseVTTCues, step by step.                            *)

\* the lines before line i that contain '-->'
ArrowLinesBefore(lines, i) ==
    {k \in 1..Len(lines) : k < i /\ Includes(Trim(lines[k]), Arrow)}

\* an iteration took the locals from before to after: the line index grew,
\* by one at a line without '-->', and at a timing line past that line and
\* over lines without '-->' only; at most one cue was added
Advances(before, after) ==
    /\ after.lines = before.lines
    /\ after.i > before.i
    /\ after.i <= Len(before.lines) + 1
    /\ IF Includes(Trim(before.lines[before.i]), Arrow)
       THEN /\ \A m \in (before.i + 1)..(after.i - 1) :
                  ~Includes(Trim(before.lines[m]), Arrow)
            /\ Len(after.cues) <= Len(before.cues) + 1
       ELSE /\ after.i = before.i + 1
            /\ after.cues = before.cues

\* no more cues than lines with '-->' that the scan has passed
CuesBounded(frame) ==
    Len(frame.cues) <= Cardinality(ArrowLinesBefore(frame.lines, frame.i))

\* parseVTTCues has returned
ScanReturned == call = "parseVTTCues" /\ ~IsSome(scan)

\* C30: the scan loop of parseVTTCues terminates: every iteration moves the
\* line index forward, by one at a line without '-->' and past the timing
\* line, over payload lines only, at a cue, so no line is read as a timing
\* line twice and no payload line is read as one; the cues never outnumber
\* the lines with '-->'.
C30_ScanTerminates ==
    /\ [][IsSome(scan) /\ IsSome(scan') => Advances(Get(scan), Get(scan'))]_vars
    /\ [](IsSome(scan) => CuesBounded(Get(scan)))
    /\ [](ScanReturned =>
             Len(ret) <= Cardinality(ArrowLinesBefore(Split(arg, "\n"),
                                                      Len(Split(arg, "\n")) + 1)))
    /\ IsSome(scan) ~> ScanReturned

\* returned with two cues, each with a payload line that was passed over
C30_Witness ==
    /\ ScanReturned
    /\ Len(ret) = 2
    /\ Len(Split(arg, "\n")) = 4
    /\ ret[1].text # <<>>
    /\ ret[2].text # <<>>

=============================================================================
